---- MODULE Spec2Model ----
(***************************************************************************)
(* A model of the pipeline coordination layer of video-rs: the Encoder     *)
(* (src/src/encode.rs), the Muxer (src/src/mux.rs), the Reader             *)
(* (src/src/io.rs) and the Decoder (src/src/decode.rs), each driving the   *)
(* external codec engine through its feed/drain protocol.                  *)
(*                                                                         *)
(* The codec engine and the container writer are external: the model       *)
(* keeps of them what the code can observe (how many frames the encoder    *)
(* took, how many packets it handed out, what the writer accepted) and     *)
(* lets each of their calls succeed or fail.                               *)
(***************************************************************************)
EXTENDS Integers, Sequences, FiniteSets, TLC

VARIABLES
    enc,      \* the Encoder: its fields, its writer and its codec context
    call,     \* the last call made on the Encoder: operation, argument, result, engine/writer operations it made
    faults,   \* how many engine or writer operations have failed so far
    dropped,  \* whether the Encoder has been dropped
    hist,     \* history of the Encoder's finish calls: how many found the header written, how many ran flush, the result of the last that did
    mux,          \* the Muxer: its fields, its writer and the writer's streams
    mux_call,     \* the last call made on the Muxer: operation, argument, result, writer operations, output returned
    mux_faults,   \* how many writer operations of the Muxer have failed so far
    mux_dropped,  \* whether the Muxer has been dropped
    mux_hist,     \* history of the Muxer: mux calls made, finish calls made, finish calls made with the header in the container

    dec,      \* the Decoder: its Reader, the stream it reads, its DecoderSplit
    dec_call, \* the last call on the Reader or the Decoder: what it read, fed and returned
    pure,     \* the last conversion made: its name, its arguments, its result
    pipe      \* the caller that decodes a source and encodes every frame: where it stands and the frame it holds

encVars == <<enc, call, faults, dropped, hist>>

pipeVars == <<dec, dec_call, pipe>>

pureVars == <<pure>>

muxVars == <<mux, mux_call, mux_faults, mux_dropped, mux_hist>>

vars == <<enc, call, faults, dropped, hist, mux, mux_call, mux_faults, mux_dropped, mux_hist, dec, dec_call, pipe, pure>>

----------------------------------------------------------------------------
(* Bounds of the model. *)

\* Frames fed to the encoder in the specification with failures.
MaxFrames == 4

\* Engine or writer operations that may fail in one behaviour.
MaxFaults == 2

\* Frames fed to the encoder in the specification without failures: more
\* than the drain ceiling, so that an encoder can hold back more packets
\* than one flush receives.
MaxFramesLong == 102

\* Explicit finish calls that find the header written, in one behaviour.
MaxFinish == 2

\* Streams added to a Muxer in one behaviour.
MaxStreams == 2

\* Writer operations of the Muxer that may fail in one behaviour.
MaxMuxFaults == 1

\* mux calls on a Muxer in one behaviour.
MaxMux == 2

\* Items of the source a Decoder reads in the pipeline.
MaxSource == 4

\* Frames the decoder's codec context holds back until the end of its input.
MaxDelay == 2

\* Items of the source read by the Reader and the Decoder alone.
MaxGappy == 3

\* Engine calls of the decoder that may fail in one behaviour.
MaxDecFaults == 1

\* Packets passed to DecoderSplit::decode_raw directly.
MaxSplit == 1

\* Bytes of an output buffer.
MaxBuf == 3

\* Largest tick count of a Time, in absolute value.
MaxTicks == 3

(* Program constants. *)

KEY_FRAME_INTERVAL == 12

MAX_DRAIN_ITERATIONS == 100

\* The second byte of an RTCP sender report.
RTCP_SR_MARKER == 200

\* Reader::read gives up once more than this many reads came back empty.
MaxEmptyReads == 3

FRAME_PIXEL_FORMAT == "RGB24"

\* Pixel formats a caller may hand in.
PixelFormats == {"RGB24", "YUV420P"}

\* Frame widths and heights a caller may hand in.
Dims == {2, 4}

\* Raw frames: what encode_raw reads of a RawFrame.
Frames == [width : Dims, height : Dims, format : PixelFormats]

\* The contracts an Encoder is built with (settings.width, settings.height).
Contracts == {<<2, 2>>, <<4, 2>>}

\* Optional values (Rust's Option): none, or a value.
None == <<>>

Some(t) == <<t>>

----------------------------------------------------------------------------
(* The running call: the Encoder `e`, the operations made so far, the      *)
(* result ("Pending" until the call returns) and the failures used.        *)

Begin(e, f) == [e |-> e, ops |-> <<>>, result |-> "Pending", faults |-> f, out |-> <<>>]

Op(m, name) == [m EXCEPT !.ops = Append(@, name)]

\* `?` on a failed engine or writer call: the call returns the error.
Fail(m) == [m EXCEPT !.result = "BackendError", !.faults = @ + 1]

\* An error that is the engine's regular answer in its state, not a failure.
Refuse(m) == [m EXCEPT !.result = "BackendError"]

Return(m, r) == IF m.result = "Pending" THEN [m EXCEPT !.result = r] ELSE m

----------------------------------------------------------------------------
(* The writer (io.rs, impl Write for Writer): a successful operation is    *)
(* appended to what the container holds.                                    *)

write_header(m, ok) ==
    IF m.result # "Pending" THEN m
    ELSE IF ok
         THEN [Op(m, "write_header") EXCEPT !.e.writer = Append(@, [op |-> "header"])]
         ELSE Fail(Op(m, "write_header"))

write_trailer(m, ok) ==
    IF m.result # "Pending" THEN m
    ELSE IF ok
         THEN [Op(m, "write_trailer") EXCEPT !.e.writer = Append(@, [op |-> "trailer"])]
         ELSE Fail(Op(m, "write_trailer"))

writer_write(m, name, packet, ok) ==
    IF ok
    THEN [Op(m, name) EXCEPT !.e.writer =
             Append(@, [op |-> name, packet |-> packet])]
    ELSE Fail(Op(m, name))

----------------------------------------------------------------------------
(* The encoder's codec context. It has taken `fed` frames and handed out   *)
(* `emitted` packets, one per frame and in the frames' order; the frames    *)
(* in between are held back (look-ahead, reordering).                       *)

Pending(e) == e.encoder.fed - e.encoder.emitted

\* What receive_packet can answer: a packet if one is held back, "again"
\* (EAGAIN) while more input may come, "eof" once the end of the input was
\* signalled and everything was handed out, or an error of the engine.
ReceiveAnswers(e) ==
    (IF Pending(e) > 0 THEN {"packet"} ELSE {})
    \cup (IF e.encoder.eof THEN (IF Pending(e) = 0 THEN {"eof"} ELSE {}) ELSE {"again"})
    \cup {"error"}

\* The packet receive_packet hands out next: its stream and position are
\* the engine's own.
NextPacket(e) == [id |-> e.encoder.emitted + 1, stream |-> -1, position |-> 0]

----------------------------------------------------------------------------
(* Encoder::encode_raw and what it calls.                                   *)

\* A validation that forgets the pixel format.
FrameValidSizeOnly(e, frame) ==
    ~(\/ frame.width # e.scaler_width
      \/ frame.height # e.scaler_height)

FrameValid(e, frame) ==
    ~(\/ frame.width # e.scaler_width
      \/ frame.height # e.scaler_height
      \/ frame.format # FRAME_PIXEL_FORMAT)

\* A header written on every call.
HeaderNeededAlways(e) == TRUE

HeaderNeeded(e) == ~e.have_written_header

KeyFrameDue(e) == e.frame_count % KEY_FRAME_INTERVAL = 0

\* Encoder::scale: run the scaler, copy the PTS.
scale(m, ok) ==
    IF m.result # "Pending" THEN m
    ELSE IF ok THEN Op(m, "scale") ELSE Fail(Op(m, "scale"))

\* An engine that takes frames after the end of the input was signalled.
send_frame_after_eof(m, kind, ok) ==
    IF m.result # "Pending" THEN m
    ELSE IF ok
         THEN [Op(m, "send_frame") EXCEPT !.e.encoder.fed = @ + 1,
                                          !.e.encoder.last_pict = kind]
         ELSE Fail(Op(m, "send_frame"))

\* encoder.send_frame(&frame), with the picture type set before it. Once
\* the end of the input was signalled the engine takes no more frames.
send_frame(m, kind, ok) ==
    IF m.result # "Pending" THEN m
    ELSE IF m.e.encoder.eof THEN Refuse(Op(m, "send_frame"))
    ELSE IF ok
         THEN [Op(m, "send_frame") EXCEPT !.e.encoder.fed = @ + 1,
                                          !.e.encoder.last_pict = kind]
         ELSE Fail(Op(m, "send_frame"))

\* A write that counts the packet whether the writer took it or not.
write_counting_attempts(m, packet, ok) ==
    LET p == [packet EXCEPT !.stream = m.e.writer_stream_index, !.position = -1]
        w == writer_write(m, IF m.e.interleaved THEN "write_interleaved" ELSE "write", p, ok)
    IN  IF m.result # "Pending" THEN m
        ELSE [w EXCEPT !.e.frame_count = @ + 1]

\* Encoder::write: stream index, position, time stamps, write, count.
write(m, packet, ok) ==
    LET p == [packet EXCEPT !.stream = m.e.writer_stream_index, !.position = -1]
        w == writer_write(m, IF m.e.interleaved THEN "write_interleaved" ELSE "write", p, ok)
    IN  IF m.result # "Pending" THEN m
        ELSE IF ok THEN [w EXCEPT !.e.frame_count = @ + 1] ELSE w

\* Encoder::encoder_receive_packet followed by what encode_raw does with
\* its answer: write the packet, or nothing on EAGAIN.
receive_and_write(m, answer, wok) ==
    IF m.result # "Pending" THEN m
    ELSE LET r == Op(m, "receive_packet")
         IN  CASE answer = "packet" ->
                    write([r EXCEPT !.e.encoder.emitted = @ + 1], NextPacket(m.e), wok)
               [] answer = "again" -> r
               [] OTHER -> Fail(r)

encode_raw(e, f, frame, ch) ==
    LET m0 == Begin(e, f)
        m1 == IF FrameValid(e, frame) THEN m0 ELSE Return(m0, "InvalidFrameFormat")
        m2 == IF m1.result = "Pending" /\ HeaderNeeded(m1.e)
              THEN LET h == write_header(m1, ch.header)
                   IN  IF h.result = "Pending"
                       THEN [h EXCEPT !.e.have_written_header = TRUE]
                       ELSE h
              ELSE m1
        m3 == scale(m2, ch.scale)
        m4 == send_frame(m3, IF KeyFrameDue(m3.e) THEN "I" ELSE "None", ch.send)
        m5 == receive_and_write(m4, ch.receive, ch.write)
    IN  Return(m5, "Ok")

----------------------------------------------------------------------------
(* Encoder::flush and Encoder::finish.                                      *)

\* The drain loop of flush from iteration i on. `ch.recv_err` and
\* `ch.write_err` name the iteration (0: none) whose receive or write fails.
RECURSIVE drain(_, _, _)
drain(m, i, ch) ==
    IF m.result # "Pending" \/ i > MAX_DRAIN_ITERATIONS THEN m
    ELSE LET r == Op(m, "receive_packet")
         IN  IF ch.recv_err = i THEN [r EXCEPT !.faults = @ + 1]          \* Err(_) => break
             ELSE IF Pending(m.e) = 0 THEN r                               \* end of stream: Err(_) => break
             ELSE drain(write([r EXCEPT !.e.encoder.emitted = @ + 1],
                              NextPacket(m.e), ch.write_err # i),
                        i + 1, ch)

flush(m, ch) ==
    IF m.result # "Pending" THEN m
    ELSE IF ~ch.eof THEN Fail(Op(m, "send_eof"))
    ELSE drain([Op(m, "send_eof") EXCEPT !.e.encoder.eof = TRUE], 1, ch)

\* A guard that forgets the trailer flag, and one that forgets the header flag.
FinishGuardHeaderOnly(e) == e.have_written_header

FinishGuardTrailerOnly(e) == ~e.have_written_trailer

FinishGuard(e) == e.have_written_header /\ ~e.have_written_trailer

\* A finish that sets the trailer flag only once the trailer is written.
finish_flag_after(e, f, ch) ==
    LET m0 == Begin(e, f)
        m1 == IF FinishGuard(e)
              THEN LET t == write_trailer(flush(m0, ch), ch.trailer)
                   IN  IF t.result = "Pending"
                       THEN [t EXCEPT !.e.have_written_trailer = TRUE]
                       ELSE t
              ELSE m0
    IN  Return(m1, "Ok")

finish(e, f, ch) ==
    LET m0 == Begin(e, f)
        m1 == IF FinishGuard(e)
              THEN write_trailer(flush([m0 EXCEPT !.e.have_written_trailer = TRUE], ch),
                                 ch.trailer)
              ELSE m0
    IN  Return(m1, "Ok")

----------------------------------------------------------------------------
(* Outcomes of the engine and the writer during one call. A call returns   *)
(* at the first failure it meets, so at most one of its operations fails;  *)
(* only a failed receive inside flush is passed over (`Err(_) => break`).  *)

NoFailure ==
    [header |-> TRUE, scale |-> TRUE, send |-> TRUE, receive |-> "again", write |-> TRUE]

\* `canFail`: whether an operation may still fail in this behaviour.
EncodeChoices(canFail) ==
    {[NoFailure EXCEPT !.receive = a] : a \in {"packet", "again"}}
    \cup (IF canFail
          THEN {[NoFailure EXCEPT !.header = FALSE, !.receive = "again"],
                [NoFailure EXCEPT !.scale = FALSE, !.receive = "again"],
                [NoFailure EXCEPT !.send = FALSE, !.receive = "again"],
                [NoFailure EXCEPT !.receive = "error"],
                [NoFailure EXCEPT !.write = FALSE, !.receive = "packet"]}
          ELSE {})

Min(a, b) == IF a < b THEN a ELSE b

FinishChoices(e, canFail) ==
    LET n == Min(Pending(e), MAX_DRAIN_ITERATIONS)
        clean == [eof |-> TRUE, recv_err |-> 0, write_err |-> 0, trailer |-> TRUE]
    IN  {clean}
        \cup (IF canFail
              THEN {[clean EXCEPT !.eof = FALSE], [clean EXCEPT !.trailer = FALSE]}
                   \cup {[clean EXCEPT !.write_err = i] : i \in 1..n}
                   \cup {[clean EXCEPT !.recv_err = i, !.trailer = t] :
                            i \in 1..Min(n + 1, MAX_DRAIN_ITERATIONS), t \in BOOLEAN}
              ELSE {})

----------------------------------------------------------------------------
(* The Muxer (mux.rs).                                                      *)

\* Time bases of streams, as <<numerator, denominator>>.
TimeBases == {<<1, 2>>, <<1, 3>>}

\* Stream indices of the source.
SourceStreams == {0, 1}

\* The time base the container gives a stream added to it.
ContainerTimeBases == {<<1, 3>>}

\* StreamInfo: the index and time base of a source stream.
StreamInfos == [index : SourceStreams, time_base : TimeBases]

\* Packets handed to mux: source stream index, time stamp, byte position.
MuxPackets == [stream : SourceStreams, pts : {None, Some(3)}, position : {7}]

\* av_rescale_q(t, from, to): t * from / to, rounded to the nearest integer,
\* halves away from zero; a packet without a time stamp keeps none.
\* RescaleDown is a rescale that rounds toward zero instead.
RescaleDown(t, from, to) ==
    IF t = None THEN None
    ELSE LET n == t[1] * from[1] * to[2]
             d == from[2] * to[1]
         IN  Some(IF n >= 0 THEN n \div d ELSE -((-n) \div d))

Rescale(t, from, to) ==
    IF t = None THEN None
    ELSE LET n == t[1] * from[1] * to[2]
             d == from[2] * to[1]
         IN  Some(IF n >= 0 THEN (2 * n + d) \div (2 * d) ELSE -((2 * (-n) + d) \div (2 * d)))

\* Muxer::new.
NewMuxer ==
    [writer |-> <<>>,
     streams |-> <<>>,
     mapping |-> <<>>,
     interleaved |-> FALSE,
     have_written_header |-> FALSE]

\* Muxer::with_stream: add a stream to the output, record where the source
\* stream goes. `tb` is the time base the container gives the new stream.
\* Output stream indices count from 0.
with_stream(e, f, info, tb, ok) ==
    LET m0 == Op(Begin(e, f), "add_stream")
        index == Len(e.streams)
        description == [index |-> index, source_time_base |-> info.time_base]
    IN  IF ~ok THEN Fail(m0)
        ELSE Return([m0 EXCEPT !.e.streams = Append(@, [time_base |-> tb]),
                               !.e.mapping = [s \in DOMAIN @ \cup {info.index} |->
                                                 IF s = info.index THEN description ELSE @[s]]],
                    "Ok")

\* Muxer::with_streams: with_stream for every stream of the reader, in
\* order; the add number `at` fails (0: none).
RECURSIVE with_streams(_, _, _, _, _)
with_streams(e, f, infos, tb, at) ==
    IF infos = <<>> THEN Return(Begin(e, f), "Ok")
    ELSE LET m == with_stream(e, f, Head(infos), tb, at # 1)
         IN  IF m.result # "Ok" THEN m
             ELSE [with_streams(m.e, m.faults, Tail(infos), tb, at - 1) EXCEPT !.ops = m.ops \o @]

\* A routing that passes a packet of an unknown stream on as it is.
mux_packet_unchecked(m, packet, ok) ==
    IF m.result # "Pending" THEN m
    ELSE writer_write(m, IF m.e.interleaved THEN "write_interleaved" ELSE "write",
                      [packet EXCEPT !.position = -1], ok)

\* A mux that writes every packet at once, interleaved or not.
mux_packet_immediate(m, packet, ok) ==
    IF m.result # "Pending" THEN m
    ELSE IF packet.stream \notin DOMAIN m.e.mapping THEN Return(m, "StreamNotFound")
    ELSE LET description == m.e.mapping[packet.stream]
             destination == m.e.streams[description.index + 1]
             p == [packet EXCEPT !.stream = description.index,
                                 !.position = -1,
                                 !.pts = Rescale(@, description.source_time_base,
                                                 destination.time_base)]
             w == writer_write(m, "write", p, ok)
         IN  IF ok THEN [w EXCEPT !.out = <<w.e.writer[Len(w.e.writer)]>>] ELSE w

\* Muxer::mux once the header flag is set: route, rescale, write.
mux_packet(m, packet, ok) ==
    IF m.result # "Pending" THEN m
    ELSE IF packet.stream \notin DOMAIN m.e.mapping THEN Return(m, "StreamNotFound")
    ELSE LET description == m.e.mapping[packet.stream]
         IN  IF description.index + 1 \notin DOMAIN m.e.streams THEN Return(m, "StreamNotFound")
             ELSE LET destination == m.e.streams[description.index + 1]
                      p == [packet EXCEPT !.stream = description.index,
                                          !.position = -1,
                                          !.pts = Rescale(@, description.source_time_base,
                                                          destination.time_base)]
                      w == writer_write(m, IF m.e.interleaved THEN "write_interleaved" ELSE "write",
                                        p, ok)
                  IN  IF ok THEN [w EXCEPT !.out = <<w.e.writer[Len(w.e.writer)]>>] ELSE w

\* A header flag that is never seen set.
MuxHeaderWrittenNever(e) == FALSE

MuxHeaderWritten(e) == e.have_written_header

\* Muxer::mux.
mux_(e, f, packet, ch) ==
    LET m0 == Begin(e, f)
        m1 == IF MuxHeaderWritten(e) THEN m0
              ELSE write_header([m0 EXCEPT !.e.have_written_header = TRUE], ch.header)
    IN  Return(mux_packet(m1, packet, ch.write), "Ok")

\* Muxer::finish.
mux_finish(e, f, ok) ==
    LET w == write_trailer(Begin(e, f), ok)
    IN  Return(IF ok THEN [w EXCEPT !.out = <<w.e.writer[Len(w.e.writer)]>>] ELSE w, "Ok")

MuxChoices(canFail) ==
    {[header |-> TRUE, write |-> TRUE]}
    \cup (IF canFail
          THEN {[header |-> FALSE, write |-> TRUE], [header |-> TRUE, write |-> FALSE]}
          ELSE {})

Outcomes(canFail) == IF canFail THEN BOOLEAN ELSE {TRUE}

InitMuxer ==
    /\ mux = NewMuxer
    /\ mux_call = [op |-> "new", arg |-> <<>>, result |-> "Ok", ops |-> <<>>, out |-> <<>>]
    /\ mux_faults = 0
    /\ mux_dropped = FALSE
    /\ mux_hist = [muxes |-> 0, not_found |-> 0, finishes |-> 0, finishes_after_header |-> 0]

MuxReturned(m, op, arg) ==
    /\ mux' = m.e
    /\ mux_call' = [op |-> op, arg |-> arg, result |-> m.result, ops |-> m.ops, out |-> m.out]
    /\ mux_faults' = m.faults

\* `muxer = muxer.with_stream(info)?`: the Muxer is moved into the call and
\* is dropped with the error if the call fails.
WithStream(infos) ==
    /\ ~mux_dropped
    /\ Len(mux.streams) < MaxStreams
    /\ \E info \in infos, tb \in ContainerTimeBases, ok \in Outcomes(mux_faults < MaxMuxFaults) :
          LET m == with_stream(mux, mux_faults, info, tb, ok)
          IN  /\ MuxReturned(m, "with_stream", <<>>)
              /\ mux_dropped' = (m.result # "Ok")
    /\ UNCHANGED mux_hist
    /\ UNCHANGED <<encVars, pipeVars, pureVars>>

\* `muxer = muxer.with_streams(&reader)?` with a reader of two streams.
WithStreams(bases) ==
    /\ ~mux_dropped
    /\ Len(mux.streams) + 2 <= MaxStreams
    /\ \E tbs \in bases \X bases, tb \in ContainerTimeBases,
          at \in (IF mux_faults < MaxMuxFaults THEN 0..2 ELSE {0}) :
          LET infos == <<[index |-> 0, time_base |-> tbs[1]], [index |-> 1, time_base |-> tbs[2]]>>
              m == with_streams(mux, mux_faults, infos, tb, at)
          IN  /\ MuxReturned(m, "with_streams", <<>>)
              /\ mux_dropped' = (m.result # "Ok")
    /\ UNCHANGED mux_hist
    /\ UNCHANGED <<encVars, pipeVars, pureVars>>

\* Muxer::interleaved.
Interleaved ==
    /\ ~mux_dropped
    /\ ~mux.interleaved
    /\ MuxReturned([Begin([mux EXCEPT !.interleaved = TRUE], mux_faults) EXCEPT !.result = "Ok"],
                   "interleaved", <<>>)
    /\ UNCHANGED <<mux_dropped, mux_hist>>
    /\ UNCHANGED <<encVars, pipeVars, pureVars>>

Mux(packets) ==
    /\ ~mux_dropped
    /\ mux_hist.muxes < MaxMux
    /\ \E packet \in packets, ch \in MuxChoices(mux_faults < MaxMuxFaults) :
          LET m == mux_(mux, mux_faults, packet, ch)
          IN  /\ MuxReturned(m, "mux", packet)
              /\ mux_hist' = [mux_hist EXCEPT !.muxes = @ + 1,
                                              !.not_found = @ + (IF m.result = "StreamNotFound"
                                                                 THEN 1 ELSE 0)]
    /\ UNCHANGED mux_dropped
    /\ UNCHANGED <<encVars, pipeVars, pureVars>>

MuxFinish ==
    /\ ~mux_dropped
    /\ mux_hist.finishes < MaxFinish
    /\ \E ok \in Outcomes(mux_faults < MaxMuxFaults) :
          MuxReturned(mux_finish(mux, mux_faults, ok), "finish", <<>>)
    /\ mux_hist' = [mux_hist EXCEPT !.finishes = @ + 1,
                                    !.finishes_after_header =
                                        @ + (IF \E i \in DOMAIN mux.writer : mux.writer[i].op = "header"
                                             THEN 1 ELSE 0)]
    /\ UNCHANGED mux_dropped
    /\ UNCHANGED <<encVars, pipeVars, pureVars>>

\* The Muxer goes out of scope: it has no Drop of its own, its writer is
\* closed as it is.
MuxDrop ==
    /\ ~mux_dropped
    /\ mux_dropped' = TRUE
    /\ mux_call' = [op |-> "drop", arg |-> <<>>, result |-> "None", ops |-> <<>>, out |-> <<>>]
    /\ UNCHANGED <<mux, mux_faults, mux_hist>>
    /\ UNCHANGED <<encVars, pipeVars, pureVars>>

NextMux ==
    \/ WithStream(StreamInfos)
    \/ WithStreams(TimeBases)
    \/ Interleaved
    \/ Mux(MuxPackets)
    \/ MuxFinish
    \/ MuxDrop

\* The Muxer with streams of one time base and packets that carry a time
\* stamp.
NextMuxRoute ==
    \/ WithStream({info \in StreamInfos : info.time_base = <<1, 2>>})
    \/ WithStreams({<<1, 2>>})
    \/ Interleaved
    \/ Mux({packet \in MuxPackets : packet.pts # None})
    \/ MuxFinish
    \/ MuxDrop

----------------------------------------------------------------------------
(* The Reader (io.rs) and the Decoder (decode.rs).                          *)

\* A source is what input.packets().next() yields, in order: Some(s) for a
\* packet of stream s, None for an empty read; after its last item every
\* read is empty.
Sources(streams, n) == UNION {[1..k -> {Some(st) : st \in streams}] : k \in 0..n}

\* Reader::read: the next packet of stream `stream_index`, or ReadExhausted
\* after more than MaxEmptyReads empty reads in this call. `seen` is what the
\* source yielded during the call.
RECURSIVE read(_, _, _)
read(r, stream_index, error_count) ==
    LET inside == r.pos <= Len(r.source)
        item == IF inside THEN r.source[r.pos] ELSE None
        next == IF inside THEN [r EXCEPT !.pos = @ + 1] ELSE r
    IN  IF item # None
        THEN IF item[1] = stream_index
             THEN [reader |-> next, result |-> "Ok",
                   packet |-> [stream |-> item[1], id |-> r.pos], seen |-> <<item>>]
             ELSE [read(next, stream_index, error_count) EXCEPT !.seen = <<item>> \o @]
        ELSE IF error_count + 1 > MaxEmptyReads
             THEN [reader |-> next, result |-> "ReadExhausted", packet |-> None, seen |-> <<item>>]
             ELSE [read(next, stream_index, error_count + 1) EXCEPT !.seen = <<item>> \o @]

\* DecoderSplit::decode_raw with a codec context that holds back `delay`
\* frames (reordering, frame threads): send the packet, receive once, run
\* the scaler if there is one. The frame comes out at the output size in
\* RGB24. `fault` names the engine call that fails in this call, if any.
decode_raw(d, packet, fault) ==
    LET fed == d.decoder.fed + 1
        ready == fed - d.decoder.emitted > d.decoder.delay
        sent == [d EXCEPT !.decoder.fed = fed]
        taken == [sent EXCEPT !.decoder.emitted = @ + 1]
    IN  IF fault = "send"
        THEN [decoder |-> d, result |-> "BackendError", frame |-> None]
        ELSE IF fault = "receive"
        THEN [decoder |-> sent, result |-> "BackendError", frame |-> None]
        ELSE IF ~ready
        THEN [decoder |-> sent, result |-> "Ok", frame |-> None]
        ELSE IF fault = "scale" /\ d.scaler
        THEN [decoder |-> taken, result |-> "BackendError", frame |-> None]
        ELSE [decoder |-> taken, result |-> "Ok",
              frame |-> Some([id |-> d.decoder.emitted + 1, width |-> d.size_out[1],
                              height |-> d.size_out[2], format |-> FRAME_PIXEL_FORMAT])]

\* Whether decode_raw with `fault` meets the failing engine call.
Raised(d, fault) ==
    \/ fault \in {"send", "receive"}
    \/ fault = "scale" /\ d.scaler /\ d.decoder.fed + 1 - d.decoder.emitted > d.decoder.delay

\* A loop that gives up after its first packet.
Decoder_decode_raw_once(d, fault, at) ==
    LET rd == read(d.reader, d.reader_stream_index, 0)
        d0 == [d EXCEPT !.reader = rd.reader]
    IN  IF rd.result # "Ok"
        THEN [decoder |-> d0, result |-> rd.result, frame |-> None,
              seen |-> rd.seen, fed |-> <<>>, raised |-> FALSE]
        ELSE LET dr == decode_raw(d.decoder, rd.packet, IF at = 1 THEN fault ELSE "none")
             IN  [decoder |-> [d0 EXCEPT !.decoder = dr.decoder], result |-> dr.result,
                  frame |-> dr.frame, seen |-> rd.seen, fed |-> <<rd.packet.id>>,
                  raised |-> at = 1 /\ Raised(d.decoder, fault)]

\* Decoder::decode_raw: read and feed packets until a frame comes out.
\* `fault` fails in the feed number `at` of this call (0: in none). `seen`
\* is what the source yielded, `fed` the packets passed to the decoder.
RECURSIVE Decoder_decode_raw(_, _, _)
Decoder_decode_raw(d, fault, at) ==
    LET rd == read(d.reader, d.reader_stream_index, 0)
        d0 == [d EXCEPT !.reader = rd.reader]
    IN  IF rd.result # "Ok"
        THEN [decoder |-> d0, result |-> rd.result, frame |-> None,
              seen |-> rd.seen, fed |-> <<>>, raised |-> FALSE]
        ELSE LET now == IF at = 1 THEN fault ELSE "none"
                 dr == decode_raw(d.decoder, rd.packet, now)
                 d1 == [d0 EXCEPT !.decoder = dr.decoder]
                 here == [decoder |-> d1, result |-> dr.result, frame |-> dr.frame,
                          seen |-> rd.seen, fed |-> <<rd.packet.id>>,
                          raised |-> Raised(d.decoder, now)]
             IN  IF dr.result # "Ok" \/ dr.frame # None THEN here
                 ELSE LET rest == Decoder_decode_raw(d1, fault, at - 1)
                      IN  [rest EXCEPT !.seen = rd.seen \o @, !.fed = here.fed \o @]

\* Decoder::decode: read and feed packets until a frame comes out.
RECURSIVE decode(_)
decode(d) ==
    LET rd == read(d.reader, d.reader_stream_index, 0)
    IN  IF rd.result # "Ok"
        THEN [decoder |-> [d EXCEPT !.reader = rd.reader], result |-> rd.result, frame |-> None]
        ELSE LET dr == decode_raw(d.decoder, rd.packet, "none")
                 d1 == [d EXCEPT !.reader = rd.reader, !.decoder = dr.decoder]
             IN  IF dr.frame # None
                 THEN [decoder |-> d1, result |-> "Ok", frame |-> dr.frame]
                 ELSE decode(d1)

\* The Decoder after DecoderBuilder::build on `source`, reading stream 0.
NewDecoder(source, delay) ==
    [reader |-> [source |-> source, pos |-> 1],
     reader_stream_index |-> 0,
     decoder |-> [decoder |-> [fed |-> 0, emitted |-> 0, delay |-> delay],
                  scaler |-> TRUE,
                  size |-> <<2, 2>>,
                  size_out |-> <<2, 2>>]]

NoDecoderCall ==
    [op |-> "new", arg |-> <<>>, from |-> 1, result |-> "Ok", seen |-> <<>>, fed |-> <<>>,
     out |-> None, raised |-> FALSE, faults |-> 0, splits |-> 0]

NoConversion == [op |-> "none", args |-> <<>>, result |-> <<>>]

InitDecoder(sources, delays) ==
    /\ \E source \in sources, delay \in delays : dec = NewDecoder(source, delay)
    /\ dec_call = NoDecoderCall
    /\ pipe = [pc |-> "decode", frame |-> None]

\* The frames of the stream the Decoder reads: one per packet of it.
StreamFrames(d) ==
    Cardinality({i \in DOMAIN d.reader.source : d.reader.source[i] = Some(d.reader_stream_index)})

----------------------------------------------------------------------------
(* The Encoder after Encoder::from_writer.                                  *)

NewEncoder(size, interleaved) ==
    [writer |-> <<>>,
     writer_stream_index |-> 0,
     encoder |-> [fed |-> 0, emitted |-> 0, eof |-> FALSE, last_pict |-> "None"],
     interleaved |-> interleaved,
     scaler_width |-> size[1],
     scaler_height |-> size[2],
     frame_count |-> 0,
     have_written_header |-> FALSE,
     have_written_trailer |-> FALSE]

NoCall == [op |-> "new", arg |-> <<>>, result |-> "Ok", ops |-> <<>>]

NoHistory == [found_header |-> 0, runs |-> 0, result |-> "None"]

InitEncoder(sizes, modes) ==
    /\ InitMuxer
    /\ InitDecoder({<<>>}, {0})
    /\ pure = NoConversion
    /\ \E size \in sizes, il \in modes : enc = NewEncoder(size, il)
    /\ call = NoCall
    /\ faults = 0
    /\ dropped = FALSE
    /\ hist = NoHistory

Init == InitEncoder(Contracts, BOOLEAN)

\* A call on the Encoder that ran to `m`.
Returned(m, op, arg) ==
    /\ enc' = m.e
    /\ call' = [op |-> op, arg |-> arg, result |-> m.result, ops |-> m.ops]
    /\ faults' = m.faults

\* What a finish that ran to `m`, explicit or at drop, adds to the history.
Finished(m) ==
    hist' = [found_header |-> hist.found_header + (IF enc.have_written_header THEN 1 ELSE 0),
             runs |-> hist.runs + (IF m.ops # <<>> THEN 1 ELSE 0),
             result |-> IF m.ops # <<>> THEN m.result ELSE hist.result]

EncodeRaw(maxFrames, maxFaults, frames) ==
    /\ ~dropped
    /\ enc.encoder.fed < maxFrames
    /\ \E frame \in frames, ch \in EncodeChoices(faults < maxFaults) :
          /\ ch.receive \in ReceiveAnswers([enc EXCEPT !.encoder.fed = @ + 1])
          /\ LET m == encode_raw(enc, faults, frame, ch)
             IN  /\ m.faults <= maxFaults
                 /\ Returned(m, "encode_raw", frame)
    /\ UNCHANGED <<dropped, hist>>
    /\ UNCHANGED <<muxVars, pipeVars, pureVars>>

Finish(maxFaults) ==
    /\ ~dropped
    /\ hist.found_header < MaxFinish
    /\ \E ch \in FinishChoices(enc, faults < maxFaults) :
          LET m == finish(enc, faults, ch)
          IN  /\ m.faults <= maxFaults
              /\ Returned(m, "finish", <<>>)
              /\ Finished(m)
    /\ UNCHANGED dropped
    /\ UNCHANGED <<muxVars, pipeVars, pureVars>>

\* impl Drop for Encoder: `let _ = self.finish();`
Drop(maxFaults) ==
    /\ ~dropped
    /\ \E ch \in FinishChoices(enc, faults < maxFaults) :
          LET m == finish(enc, faults, ch)
          IN  /\ m.faults <= maxFaults
              /\ Returned([m EXCEPT !.result = "None"], "drop", <<>>)
              /\ Finished(m)
    /\ dropped' = TRUE
    /\ UNCHANGED <<muxVars, pipeVars, pureVars>>

Next ==
    \/ EncodeRaw(MaxFrames, MaxFaults, Frames)
    \/ Finish(MaxFaults)
    \/ Drop(MaxFaults)

Spec == Init /\ [][Next]_vars

(* The Encoder with an engine and a writer that never fail, fed up to      *)
(* MaxFramesLong frames that match its contract.                            *)

ValidFrame == [width |-> 2, height |-> 2, format |-> FRAME_PIXEL_FORMAT]

InitLong == InitEncoder({<<2, 2>>}, {FALSE})

NextLong ==
    \/ EncodeRaw(MaxFramesLong, 0, {ValidFrame})
    \/ Finish(0)
    \/ Drop(0)

SpecLong == InitLong /\ [][NextLong]_vars

(* The caller of the end-to-end property: decode until ReadExhausted, pass  *)
(* each frame to an Encoder of the decoder's output size, then finish. The  *)
(* source is a file: packets of two streams and no empty read before its    *)
(* end. Neither engine nor writer fails.                                    *)

InitPipe ==
    /\ InitMuxer
    /\ InitDecoder(Sources({0, 1}, MaxSource), 0..MaxDelay)
    /\ pure = NoConversion
    /\ enc = NewEncoder(<<2, 2>>, FALSE)
    /\ call = NoCall
    /\ faults = 0
    /\ dropped = FALSE
    /\ hist = NoHistory

PipeDecode ==
    /\ pipe.pc = "decode"
    /\ LET r == decode(dec)
       IN  /\ dec' = r.decoder
           /\ pipe' = IF r.result = "Ok" THEN [pc |-> "encode", frame |-> r.frame]
                      ELSE IF r.result = "ReadExhausted" THEN [pc |-> "finish", frame |-> None]
                      ELSE [pc |-> "failed", frame |-> None]
    /\ UNCHANGED <<encVars, muxVars, dec_call, pureVars>>

PipeEncode ==
    /\ pipe.pc = "encode"
    /\ LET frame == [width |-> pipe.frame[1].width, height |-> pipe.frame[1].height,
                     format |-> pipe.frame[1].format]
       IN  \E ch \in EncodeChoices(FALSE) :
              /\ ch.receive \in ReceiveAnswers([enc EXCEPT !.encoder.fed = @ + 1])
              /\ LET m == encode_raw(enc, faults, frame, ch)
                 IN  /\ Returned(m, "encode_raw", frame)
                     /\ pipe' = [pc |-> IF m.result = "Ok" THEN "decode" ELSE "failed",
                                 frame |-> None]
    /\ UNCHANGED <<dropped, hist, dec, dec_call, muxVars, pureVars>>

PipeFinish ==
    /\ pipe.pc = "finish"
    /\ \E ch \in FinishChoices(enc, FALSE) :
          LET m == finish(enc, faults, ch)
          IN  /\ Returned(m, "finish", <<>>)
              /\ Finished(m)
    /\ pipe' = [pipe EXCEPT !.pc = "done"]
    /\ UNCHANGED <<dropped, dec, dec_call, muxVars, pureVars>>

NextPipe ==
    \/ PipeDecode
    \/ PipeEncode
    \/ PipeFinish

SpecPipe == InitPipe /\ [][NextPipe]_vars

(* The Reader and the Decoder alone, on a source that may yield nothing     *)
(* between packets, with a decoder whose engine calls may fail.             *)

GappySources(streams, n) ==
    UNION {[1..k -> {None} \cup {Some(st) : st \in streams}] : k \in 0..n}

InitRead ==
    /\ InitMuxer
    /\ InitDecoder(GappySources(SourceStreams, MaxGappy), 0..MaxDelay)
    /\ pure = NoConversion
    /\ enc = NewEncoder(<<2, 2>>, FALSE)
    /\ call = NoCall
    /\ faults = 0
    /\ dropped = FALSE
    /\ hist = NoHistory

DecoderFaults(canFail) == IF canFail THEN {"none", "send", "receive", "scale"} ELSE {"none"}

\* reader.read(stream_index).
ReaderRead ==
    /\ \E stream_index \in SourceStreams :
          LET r == read(dec.reader, stream_index, 0)
          IN  /\ dec' = [dec EXCEPT !.reader = r.reader]
              /\ dec_call' = [op |-> "read", arg |-> <<stream_index>>, from |-> dec.reader.pos,
                              result |-> r.result, seen |-> r.seen, fed |-> <<>>,
                              out |-> IF r.result = "Ok" THEN Some(r.packet) ELSE None,
                              raised |-> FALSE, faults |-> dec_call.faults, splits |-> dec_call.splits]
    /\ UNCHANGED <<encVars, muxVars, pipe, pureVars>>

\* decoder.decode_raw().
DecodeRaw ==
    /\ \E fault \in DecoderFaults(dec_call.faults < MaxDecFaults), at \in 0..(MaxDelay + 1) :
          LET r == Decoder_decode_raw(dec, fault, at)
          IN  /\ IF fault = "none" THEN at = 0 ELSE r.raised
              /\ dec' = r.decoder
              /\ dec_call' = [op |-> "decode_raw", arg |-> <<>>, from |-> dec.reader.pos,
                              result |-> r.result, seen |-> r.seen, fed |-> r.fed,
                              out |-> r.frame, raised |-> r.raised,
                              faults |-> dec_call.faults + (IF r.raised THEN 1 ELSE 0),
                              splits |-> dec_call.splits]
    /\ UNCHANGED <<encVars, muxVars, pipe, pureVars>>

\* decoder_split.decode_raw(packet) with a packet of the decoder's stream
\* that the caller got elsewhere.
SplitDecodeRaw ==
    /\ dec_call.splits < MaxSplit
    /\ \E fault \in DecoderFaults(dec_call.faults < MaxDecFaults) :
          LET packet == [stream |-> dec.reader_stream_index, id |-> 0]
              r == decode_raw(dec.decoder, packet, fault)
              raised == Raised(dec.decoder, fault)
          IN  /\ fault = "none" \/ raised
              /\ dec' = [dec EXCEPT !.decoder = r.decoder]
              /\ dec_call' = [op |-> "split_decode_raw", arg |-> <<packet>>, from |-> dec.reader.pos,
                              result |-> r.result, seen |-> <<>>, fed |-> <<packet.id>>,
                              out |-> r.frame, raised |-> raised,
                              faults |-> dec_call.faults + (IF raised THEN 1 ELSE 0),
                              splits |-> dec_call.splits + 1]
    /\ UNCHANGED <<encVars, muxVars, pipe, pureVars>>

NextRead ==
    \/ ReaderRead
    \/ DecodeRaw
    \/ SplitDecodeRaw

SpecRead == InitRead /\ [][NextRead]_vars

----------------------------------------------------------------------------
(* DecoderSplit, engine call by engine call (decode.rs). The running call   *)
(* is [e |-> the DecoderSplit, ops |-> the engine calls made with their     *)
(* answers, result, faults, out |-> the frame returned]. There is no        *)
(* hardware acceleration context.                                           *)

DECODER_MAX_DRAIN_ITERATIONS == 100

\* Most packets fed to one DecoderSplit, and the longest codec delay.
MaxSplitFed == 102

MaxSplitDelay == 101

Answered(m, op, answer) == [m EXCEPT !.ops = Append(@, [op |-> op, answer |-> answer])]

\* self.decoder.send_packet(&packet)
send_packet(m, packet, ok) ==
    LET sent == [m EXCEPT !.ops = Append(@, [op |-> "send_packet", packet |-> packet,
                                             answer |-> IF ok THEN "ok" ELSE "error"])]
    IN  IF ok THEN [sent EXCEPT !.e.decoder.fed = @ + 1] ELSE Fail(sent)

\* Whether the codec has a frame to hand out: more packets taken than its
\* delay holds back, or any left once it has been told the end of stream.
FrameReady(d) ==
    IF d.decoder.eof THEN d.decoder.fed > d.decoder.emitted
    ELSE d.decoder.fed - d.decoder.emitted > d.decoder.delay

\* decoder_receive_frame: Ok(Some(frame)), Ok(None) on EAGAIN, Err on any
\* other answer (the end of stream is one).
decoder_receive_frame(m, ok) ==
    IF m.result # "Pending" THEN m
    ELSE IF ~ok THEN Fail(Answered(m, "receive_frame", "error"))
    ELSE IF FrameReady(m.e)
    THEN [Answered(m, "receive_frame", "frame") EXCEPT
             !.e.decoder.emitted = @ + 1,
             !.out = Some([id |-> m.e.decoder.emitted + 1])]
    ELSE IF m.e.decoder.eof THEN Refuse(Answered(m, "receive_frame", "eof"))
    ELSE Answered(m, "receive_frame", "again")

\* scaler.run(&frame, &mut frame_scaled), when a frame came and there is a
\* scaler.
scaler_run(m, ok) ==
    IF m.result # "Pending" \/ m.out = None \/ ~m.e.scaler THEN m
    ELSE IF ok THEN Answered(m, "scaler_run", "ok")
    ELSE [Fail(Answered(m, "scaler_run", "error")) EXCEPT !.out = None]

\* packet.rescale_ts(packet_time_base, decoder_time_base)
rescale_ts(packet, from, to) ==
    [packet EXCEPT !.pts = Rescale(@, from, to), !.dts = Rescale(@, from, to)]

\* The packet is fed with the timestamps it came with.
DecoderSplit_decode_raw_as_stamped(d, f, packet, fault) ==
    Return(scaler_run(decoder_receive_frame(send_packet(Begin(d, f), packet,
                                                        fault # "send"),
                                            fault # "receive"),
                      fault # "scale"),
           "Ok")

\* DecoderSplit::decode_raw. `fault` names the engine call that fails.
DecoderSplit_decode_raw(d, f, packet, fault) ==
    LET rescaled == rescale_ts(packet, packet.time_base, d.decoder_time_base)
        sent == send_packet(Begin(d, f), rescaled, fault # "send")
        received == decoder_receive_frame(sent, fault # "receive")
    IN  Return(scaler_run(received, fault # "scale"), "Ok")

RECURSIVE split_drain(_, _, _)
\* for _ in 0..MAX_DRAIN_ITERATIONS { if receive.is_err() { break; } }
split_drain(m, i, recv_err) ==
    IF i > DECODER_MAX_DRAIN_ITERATIONS THEN m
    ELSE LET r == decoder_receive_frame(m, recv_err # i)
         IN  IF r.result # "Pending" THEN r
             ELSE split_drain([r EXCEPT !.out = None], i + 1, recv_err)

\* A drain that does not look at what send_eof answered.
DecoderSplit_drop_unconditional(d, f, ch) ==
    LET eof == Answered(Begin(d, f), "send_eof", IF ch.eof THEN "ok" ELSE "error")
    IN  [split_drain([eof EXCEPT !.e.decoder.eof = ch.eof], 1, ch.recv_err)
            EXCEPT !.result = "None", !.out = None]

\* Drop for DecoderSplit: nothing is returned, errors end the drain.
DecoderSplit_drop(d, f, ch) ==
    LET eof == Answered(Begin(d, f), "send_eof", IF ch.eof THEN "ok" ELSE "error")
        m == IF ch.eof
             THEN split_drain([eof EXCEPT !.e.decoder.eof = TRUE], 1, ch.recv_err)
             ELSE Fail(eof)
    IN  [m EXCEPT !.result = "None", !.out = None]

\* DecoderBuilder::build(...).into_split().0
NewDecoderSplit(delay, time_base, scaler) ==
    [decoder |-> [fed |-> 0, emitted |-> 0, delay |-> delay, eof |-> FALSE],
     decoder_time_base |-> time_base,
     scaler |-> scaler,
     dropped |-> FALSE]

NoSplitCall ==
    [op |-> "new", arg |-> <<>>, result |-> "Ok", out |-> None, ops |-> <<>>, faults |-> 0]

SplitDelays == {0, 1, MaxSplitDelay}

SplitPackets == [pts : {None, Some(3)}, dts : {Some(3)}, time_base : TimeBases]

InitSplit ==
    /\ InitMuxer
    /\ \E delay \in SplitDelays, time_base \in TimeBases, scaler \in BOOLEAN :
          dec = NewDecoderSplit(delay, time_base, scaler)
    /\ dec_call = NoSplitCall
    /\ pipe = [pc |-> "decode", frame |-> None]
    /\ pure = NoConversion
    /\ enc = NewEncoder(<<2, 2>>, FALSE)
    /\ call = NoCall
    /\ faults = 0
    /\ dropped = FALSE
    /\ hist = NoHistory

SplitReturned(m, op, arg) ==
    /\ dec' = m.e
    /\ dec_call' = [op |-> op, arg |-> arg, result |-> m.result, out |-> m.out,
                    ops |-> m.ops, faults |-> m.faults]
    /\ UNCHANGED <<encVars, muxVars, pipe, pureVars>>

\* decoder_split.decode_raw(packet)
SplitDecode ==
    /\ ~dec.dropped
    /\ dec.decoder.fed < MaxSplitFed
    /\ \E packet \in SplitPackets, fault \in DecoderFaults(dec_call.faults < MaxDecFaults) :
          LET m == DecoderSplit_decode_raw(dec, dec_call.faults, packet, fault)
          IN  /\ fault # "none" => m.faults > dec_call.faults
              /\ SplitReturned(m, "decode_raw", <<packet>>)

\* drop(decoder_split)
SplitDrop ==
    /\ ~dec.dropped
    /\ \E eof \in BOOLEAN, recv_err \in 0..2 :
          LET m == DecoderSplit_drop(dec, dec_call.faults, [eof |-> eof, recv_err |-> recv_err])
          IN  /\ ~eof => recv_err = 0
              /\ recv_err # 0 => m.faults > dec_call.faults
              /\ SplitReturned([m EXCEPT !.e.dropped = TRUE], "drop", <<>>)

NextSplit ==
    \/ SplitDecode
    \/ SplitDrop

SpecSplit == InitSplit /\ [][NextSplit]_vars

(* Conversions (rtp.rs, time.rs): the objects are as constructed and stay  *)
(* so; `pure` holds the arguments, then the conversion made and its result. *)

InitObjects ==
    /\ InitMuxer
    /\ InitDecoder({<<>>}, {0})
    /\ enc = NewEncoder(<<2, 2>>, FALSE)
    /\ call = NoCall
    /\ faults = 0
    /\ dropped = FALSE
    /\ hist = NoHistory

Converted(op, args, result) ==
    /\ pure' = [op |-> op, args |-> args, result |-> result]
    /\ UNCHANGED <<encVars, muxVars, pipeVars>>

\* Output buffers (Buf = Vec<u8>).
Bytes == {0, 1, 200, 255}

Bufs == UNION {[1..n -> Bytes] : n \in 0..MaxBuf}

\* A classification by the first byte.
RtpBuf_from_first_byte(buf) ==
    IF Len(buf) >= 2
    THEN IF buf[1] = RTCP_SR_MARKER
         THEN [kind |-> "Rtcp", buf |-> buf]
         ELSE [kind |-> "Rtp", buf |-> buf]
    ELSE [kind |-> "Rtp", buf |-> buf]

\* impl From<Buf> for RtpBuf. buf[1] of the code is the second byte, here
\* buf[2].
RtpBuf_from(buf) ==
    IF Len(buf) >= 2
    THEN IF buf[2] = RTCP_SR_MARKER
         THEN [kind |-> "Rtcp", buf |-> buf]
         ELSE [kind |-> "Rtp", buf |-> buf]
    ELSE [kind |-> "Rtp", buf |-> buf]

\* impl From<RtpBuf> for Buf.
Buf_from(rtp_buf) ==
    CASE rtp_buf.kind = "Rtp" -> rtp_buf.buf
      [] rtp_buf.kind = "Rtcp" -> rtp_buf.buf

InitRtp ==
    /\ InitObjects
    /\ \E buf \in Bufs : pure = [op |-> "buf", args |-> <<buf>>, result |-> <<>>]

\* RtpBuf::from(buf).
RtpBufFrom ==
    /\ pure.op = "buf"
    /\ Converted("RtpBuf::from", pure.args, RtpBuf_from(pure.args[1]))

\* Buf::from(rtp_buf).
BufFrom ==
    /\ pure.op = "RtpBuf::from"
    /\ Converted("Buf::from", pure.args, Buf_from(pure.result))

NextRtp ==
    \/ RtpBufFrom
    \/ BufFrom

SpecRtp == InitRtp /\ [][NextRtp]_vars

\* Time (time.rs): an optional tick count and a time base <<num, den>>.
TimeTimeBases == {<<1, 3>>, <<1, 7>>, <<1, 8>>, <<1, 16>>, <<3, 9>>}

Ticks == {None} \cup {Some(t) : t \in -MaxTicks..MaxTicks}

\* Time::new. Time::new(None, 0/0) is the Time without value and without a
\* usable time base.
Times == [time : Ticks, time_base : TimeTimeBases] \cup {[time |-> None, time_base |-> <<0, 0>>]}

\* A has_value that answers for the time base.
has_value_of_base(t) == t.time_base # <<0, 0>>

has_value(t) == t.time # None

\* Time::as_secs and Time::as_secs_f64: ticks * (num / den), as the fraction
\* <<ticks * num, den>>; 0.0, as <<0, 1>>, without ticks.
as_secs(t) ==
    IF t.time # None THEN <<t.time[1] * t.time_base[1], t.time_base[2]>> ELSE <<0, 1>>

as_secs_f64(t) ==
    IF t.time # None THEN <<t.time[1] * t.time_base[1], t.time_base[2]>> ELSE <<0, 1>>

\* impl From<Time> for Duration: Duration::from_secs_f64 panics on a
\* negative number of seconds.
Duration_from(t) ==
    LET secs == as_secs_f64(t)
    IN  IF secs[1] < 0 THEN [panicked |-> TRUE, secs |-> <<0, 1>>]
        ELSE [panicked |-> FALSE, secs |-> secs]

into_value(t) == t.time

\* Time::aligned_with.
aligned_with(t, rhs) ==
    [lhs |-> t.time,
     rhs |-> Rescale(rhs.time, rhs.time_base, t.time_base),
     time_base |-> t.time_base]

\* An apply that takes absent ticks for 0.
apply_absent_as_zero(a, f) ==
    LET l == IF a.lhs # None THEN a.lhs[1] ELSE 0
        r == IF a.rhs # None THEN a.rhs[1] ELSE 0
    IN  [time |-> Some(IF f = "add" THEN l + r ELSE l - r), time_base |-> a.time_base]

\* Aligned::apply with the closure of add (lhs + rhs) or subtract (lhs - rhs).
apply(a, f) ==
    IF a.lhs # None /\ a.rhs # None
    THEN [time |-> Some(IF f = "add" THEN a.lhs[1] + a.rhs[1] ELSE a.lhs[1] - a.rhs[1]),
          time_base |-> a.time_base]
    ELSE [time |-> None, time_base |-> a.time_base]

\* Aligned::add and Aligned::subtract.
add(a) == apply(a, "add")

subtract(a) == apply(a, "subtract")

\* Two Times; the second has a usable time base, and so has the first
\* wherever ticks are rescaled into it.
InitTime ==
    /\ InitObjects
    /\ \E a \in Times, b \in Times :
          /\ b.time_base # <<0, 0>>
          /\ pure = [op |-> "times", args |-> <<a, b>>, result |-> <<>>]

Rescalable(a, b) == a.time_base # <<0, 0>> \/ b.time = None

HasValue ==
    /\ pure.op = "times"
    /\ Converted("has_value", pure.args, has_value(pure.args[1]))

AsSecs ==
    /\ pure.op = "times"
    /\ Converted("as_secs", pure.args, as_secs(pure.args[1]))

AsSecsF64 ==
    /\ pure.op = "times"
    /\ Converted("as_secs_f64", pure.args, as_secs_f64(pure.args[1]))

IntoDuration ==
    /\ pure.op = "times"
    /\ Converted("Duration::from", pure.args, Duration_from(pure.args[1]))

IntoValue ==
    /\ pure.op = "times"
    /\ Converted("into_value", pure.args, into_value(pure.args[1]))

AlignedWith ==
    /\ pure.op = "times"
    /\ Rescalable(pure.args[1], pure.args[2])
    /\ Converted("aligned_with", pure.args, aligned_with(pure.args[1], pure.args[2]))

Add ==
    /\ pure.op = "times"
    /\ Rescalable(pure.args[1], pure.args[2])
    /\ Converted("add", pure.args, add(aligned_with(pure.args[1], pure.args[2])))

Subtract ==
    /\ pure.op = "times"
    /\ Rescalable(pure.args[1], pure.args[2])
    /\ Converted("subtract", pure.args, subtract(aligned_with(pure.args[1], pure.args[2])))

NextTime ==
    \/ HasValue
    \/ AsSecs
    \/ AsSecsF64
    \/ IntoDuration
    \/ IntoValue
    \/ AlignedWith
    \/ Add
    \/ Subtract

SpecTime == InitTime /\ [][NextTime]_vars

----------------------------------------------------------------------------
(* Resize: fitting dimensions (resize.rs).                                  *)
(*                                                                          *)
(* The computation is in f32. A finite positive f32 is m / 2^k with a       *)
(* 24-bit mantissa m in 2^23 .. 2^24 - 1; every operation rounds to the     *)
(* nearest such value, ties to the even mantissa. Dimensions stay below     *)
(* 2^24, so `as f32` of a dimension is exact.                               *)

F32Zero == [cls |-> "zero", m |-> 0, k |-> 0]

F32Inf == [cls |-> "inf", m |-> 0, k |-> 0]

F32NaN == [cls |-> "nan", m |-> 0, k |-> 0]

F32One == [cls |-> "num", m |-> 2^23, k |-> 23]

F32(m, k) == IF m = 2^24 THEN [cls |-> "num", m |-> 2^23, k |-> k - 1]
                         ELSE [cls |-> "num", m |-> m, k |-> k]

RoundUp(rem, half, q) == rem > half \/ (rem = half /\ q % 2 = 1)

RECURSIVE LongDivision(_, _, _, _)
\* q + r/b is the quotient scaled by 2^k; one more binary digit per step.
LongDivision(q, r, b, k) ==
    IF q >= 2^23
    THEN F32(q + (IF RoundUp(2 * r, b, q) THEN 1 ELSE 0), k)
    ELSE IF 2 * r >= b
         THEN LongDivision(2 * q + 1, 2 * r - b, b, k + 1)
         ELSE LongDivision(2 * q, 2 * r, b, k + 1)

\* a as f32 / b as f32
f32_div(a, b) ==
    IF b = 0 THEN (IF a = 0 THEN F32NaN ELSE F32Inf)
    ELSE IF a = 0 THEN F32Zero
    ELSE LongDivision(a \div b, a % b, b, 0)

\* x <= y on f32 (false when either is NaN)
f32_le(x, y) ==
    CASE x.cls = "nan" \/ y.cls = "nan" -> FALSE
      [] y.cls = "inf" -> TRUE
      [] x.cls = "inf" -> FALSE
      [] x.cls = "zero" -> TRUE
      [] y.cls = "zero" -> FALSE
      [] OTHER -> x.k > y.k \/ (x.k = y.k /\ x.m <= y.m)

\* x < y on f32 (false when either is NaN)
f32_lt(x, y) ==
    CASE x.cls = "nan" \/ y.cls = "nan" -> FALSE
      [] x.cls = "inf" -> FALSE
      [] y.cls = "inf" -> TRUE
      [] y.cls = "zero" -> FALSE
      [] x.cls = "zero" -> TRUE
      [] OTHER -> x.k > y.k \/ (x.k = y.k /\ x.m < y.m)

\* The first operand whatever the second is, unless it is not finite.
f32_first(x, y) == IF x.cls \in {"nan", "inf"} THEN y ELSE x

\* f32::min: the smaller of the two; a NaN operand is ignored.
f32_min(x, y) ==
    CASE x.cls = "nan" -> y
      [] y.cls = "nan" -> x
      [] OTHER -> IF f32_lt(y, x) THEN y ELSE x

\* w as f32 * f, for finite f >= 0 (every factor used is a minimum with a
\* finite value). The exact product w * f.m is held as hi * 2^12 + lo.
f32_mul(w, f) ==
    IF w = 0 \/ f.cls = "zero" THEN F32Zero
    ELSE LET low == w * (f.m % 2^12)
             hi == w * (f.m \div 2^12) + low \div 2^12
             lo == low % 2^12
             s == CHOOSE n \in 0..12 : 2^(11 + n) <= hi /\ hi < 2^(12 + n)
             q == hi * 2^(12 - s) + lo \div 2^s
             rem == lo % 2^s
         IN  IF s = 0 THEN F32(q, f.k)
             ELSE F32(q + (IF RoundUp(rem, 2^(s - 1), q) THEN 1 ELSE 0),
                      f.k - s)

\* x as u32 for finite x >= 0: towards zero.
as_u32(x) ==
    IF x.cls = "zero" \/ x.k >= 24 THEN 0 ELSE x.m \div 2^x.k

\* x.round() as u32 for finite x >= 0: to nearest, halves away from zero.
round(x) ==
    CASE x.cls = "zero" -> 0
      [] x.k >= 25 -> 0
      [] x.k = 0 -> x.m
      [] OTHER -> (x.m + 2^(x.k - 1)) \div 2^x.k

calculate_fit_dims(dims, fit_dims) ==
    LET w == dims[1]
        h == dims[2]
        w_max == fit_dims[1]
        h_max == fit_dims[2]
    IN  IF w_max >= w /\ h_max >= h
        THEN Some(<<w, h>>)
        ELSE LET wf == f32_div(w_max, w)
                 hf == f32_div(h_max, h)
                 f == f32_min(wf, hf)
                 w_out == as_u32(f32_mul(w, f))
                 h_out == as_u32(f32_mul(h, f))
             IN  IF w_out > 0 /\ h_out > 0
                 THEN Some(<<w_out, h_out>>)
                 ELSE None

\* Only the width is looked at.
width_even(out_w, out_h) == out_w % 2 = 0

both_even(out_w, out_h) == out_w % 2 = 0 /\ out_h % 2 = 0

\* One pass of the loop over (w_max, h_max); a finished loop stays as it is.
fit_even_iteration(dims, loop) ==
    LET w == dims[1]
        h == dims[2]
        w_max == loop.fit_dims[1]
        h_max == loop.fit_dims[2]
    IN  IF loop.done THEN loop
        ELSE IF w_max > 0 /\ h_max > 0
        THEN LET wf == f32_div(w_max, w)
                 hf == f32_div(h_max, h)
                 f == f32_min(f32_min(wf, hf), F32One)
                 out_w == round(f32_mul(w, f))
                 out_h == round(f32_mul(h, f))
             IN  IF out_w > 0 /\ out_h > 0
                 THEN IF both_even(out_w, out_h)
                      THEN [loop EXCEPT !.done = TRUE,
                                        !.result = Some(<<out_w, out_h>>)]
                      ELSE IF f32_lt(wf, hf)
                           THEN [loop EXCEPT !.fit_dims = <<w_max - 1, h_max>>]
                           ELSE [loop EXCEPT !.fit_dims = <<w_max, h_max - 1>>]
                 ELSE [loop EXCEPT !.done = TRUE]
        ELSE [loop EXCEPT !.done = TRUE]

RECURSIVE fit_even_loop(_, _, _)
\* The loop run for at most n passes, split in halves to keep the
\* evaluation shallow.
fit_even_loop(dims, loop, n) ==
    IF loop.done \/ n = 0 THEN loop
    ELSE IF n = 1 THEN fit_even_iteration(dims, loop)
    ELSE fit_even_loop(dims, fit_even_loop(dims, loop, n \div 2), n - n \div 2)

\* Every pass that goes on takes one from w_max or h_max, so the loop is
\* over after w_max + h_max + 1 passes.
calculate_fit_dims_even(dims, fit_dims) ==
    fit_even_loop(dims, [fit_dims |-> fit_dims, done |-> FALSE, result |-> None],
                  fit_dims[1] + fit_dims[2] + 1).result

compute_for(resize, dims) ==
    CASE resize.strategy = "Exact" -> Some(resize.dims)
      [] resize.strategy = "Fit" -> calculate_fit_dims(dims, resize.dims)
      [] resize.strategy = "FitEven" -> calculate_fit_dims_even(dims, resize.dims)

TESTING_DIM_CANDIDATES == {0, 1, 2, 3, 8, 111, 256, 1000}

\* Dimensions tried: the candidates, and a pair whose ratio is not a
\* binary fraction.
Dimensions == TESTING_DIM_CANDIDATES \cup {13, 22}

InitResize ==
    /\ InitObjects
    /\ \E dims \in Dimensions \X Dimensions, bound \in Dimensions \X Dimensions :
          pure = [op |-> "dims", args |-> <<dims, bound>>, result |-> <<>>]

ResizeExact ==
    /\ pure.op = "dims"
    /\ Converted("Exact", pure.args,
                 compute_for([strategy |-> "Exact", dims |-> pure.args[2]], pure.args[1]))

ResizeFit ==
    /\ pure.op = "dims"
    /\ Converted("Fit", pure.args,
                 compute_for([strategy |-> "Fit", dims |-> pure.args[2]], pure.args[1]))

ResizeFitEven ==
    /\ pure.op = "dims"
    /\ Converted("FitEven", pure.args,
                 compute_for([strategy |-> "FitEven", dims |-> pure.args[2]], pure.args[1]))

NextResize ==
    \/ ResizeExact
    \/ ResizeFit
    \/ ResizeFitEven

SpecResize == InitResize /\ [][NextResize]_vars

\* FitEven pass by pass: the loop of calculate_fit_dims_even as it stands
\* before each pass.
InitFitEven ==
    /\ InitObjects
    /\ \E dims \in TESTING_DIM_CANDIDATES \X TESTING_DIM_CANDIDATES,
          bound \in TESTING_DIM_CANDIDATES \X TESTING_DIM_CANDIDATES :
          pure = [op |-> "fit_even", args |-> <<dims, bound>>,
                  result |-> [fit_dims |-> bound, done |-> FALSE, result |-> None]]

FitEvenPass ==
    /\ pure.op = "fit_even"
    /\ ~pure.result.done
    /\ Converted("fit_even", pure.args, fit_even_iteration(pure.args[1], pure.result))

NextFitEven ==
    \/ FitEvenPass

SpecFitEven == InitFitEven /\ [][NextFitEven]_vars

\* A pass is due while the loop has not ended, and a pass always changes the
\* loop: FitEvenPassDue is ENABLED <<FitEvenPass>>_vars.
FitEvenPassDue == pure.op = "fit_even" /\ ~pure.result.done

\* The code runs on: a pass that stays due is made (WF_vars(FitEvenPass),
\* with its enabling condition written out).
SpecFitEvenFair ==
    SpecFitEven /\ ([]<>(~FitEvenPassDue) \/ []<><<FitEvenPass>>_vars)

----------------------------------------------------------------------------
(* H.264 parameter sets from extradata (extradata.rs).                      *)
(*                                                                          *)
(* Byte slices are sequences; the byte at Rust index i is bytes[i + 1].     *)
(* Indexing or slicing outside a slice panics.                              *)

At(bytes, i) == bytes[i + 1]

\* &bytes[from..to], for from <= to <= bytes.len()
Slice(bytes, from, to) == SubSeq(bytes, from + 1, to)

InvalidExtraData == [kind |-> "Err", error |-> "InvalidExtraData"]

Panicked == [kind |-> "panic"]

ParameterSets(sps, pps) == [kind |-> "Ok", sps |-> sps, pps |-> pps]

u16_from_be_bytes(hi, lo) == hi * 256 + lo

RECURSIVE avcc_ppss(_, _, _, _, _)
\* The loop `for _ in 0..pps_num`, with `left` passes to go.
avcc_ppss(sps, pps_array, left, pps_p, ppss) ==
    IF left = 0 THEN ParameterSets(sps, ppss)
    ELSE IF Len(pps_array) - pps_p < 2 THEN InvalidExtraData
    ELSE LET pps_size == u16_from_be_bytes(At(pps_array, pps_p),
                                           At(pps_array, pps_p + 1))
         IN  IF Len(pps_array) - (pps_p + 2) < pps_size
             THEN InvalidExtraData
             ELSE avcc_ppss(sps, pps_array, left - 1, pps_p + 2 + pps_size,
                            Append(ppss, Slice(pps_array, pps_p + 2,
                                               pps_p + 2 + pps_size)))

\* `8 + sps_size` is a u16 sum: past 65535 it panics, or wraps below 8 and
\* the slice 8..end panics.
extract_parameter_sets_from_extradata_h264_avcc(bytes) ==
    IF Len(bytes) > 8
    THEN LET sps_size == u16_from_be_bytes(At(bytes, 6), At(bytes, 7))
         IN  IF 8 + sps_size > 65535 \/ 8 + sps_size > Len(bytes)
             THEN Panicked
             ELSE LET sps == Slice(bytes, 8, 8 + sps_size)
                      pps_array == Slice(bytes, 8 + sps_size, Len(bytes))
                  IN  IF Len(pps_array) > 1
                      THEN avcc_ppss(sps, Slice(pps_array, 1, Len(pps_array)),
                                     At(pps_array, 0), 0, <<>>)
                      ELSE InvalidExtraData
    ELSE InvalidExtraData

RECURSIVE find_avc_start_code_from(_, _, _)
\* The loop `for i in 0..(part.len() - 3)` from pass i on.
find_avc_start_code_from(part, offset, i) ==
    IF i >= Len(part) - 3 THEN None
    ELSE IF Slice(part, i, i + 3) = <<0, 0, 1>>
         THEN Some(<<offset + i, offset + i + 3>>)
    ELSE IF i + 4 <= Len(part) /\ Slice(part, i, i + 4) = <<0, 0, 0, 1>>
         THEN Some(<<offset + i, offset + i + 4>>)
    ELSE find_avc_start_code_from(part, offset, i + 1)

find_avc_start_code(bytes, offset) ==
    LET part == Slice(bytes, offset, Len(bytes))
    IN  IF Len(part) >= 3 THEN find_avc_start_code_from(part, offset, 0)
        ELSE None

\* The type of a unit: nal[0] & 0x1f.
nal_type(nal) == nal[1] % 32

RECURSIVE annexb_units(_, _, _, _)
\* The loop `while let Some(index) = index_current` and what follows it.
annexb_units(bytes, index_current, sps, pps) ==
    IF index_current = None
    THEN IF sps # None THEN ParameterSets(sps[1], pps) ELSE InvalidExtraData
    ELSE LET index == index_current[1]
             found == find_avc_start_code(bytes, index)
             end == IF found = None THEN Len(bytes) ELSE found[1][1]
             index_next == IF found = None THEN None ELSE Some(found[1][2])
             nal == Slice(bytes, index, end)
         IN  IF nal = <<>> THEN Panicked
             ELSE annexb_units(bytes, index_next,
                               IF nal_type(nal) = 7 THEN Some(nal) ELSE sps,
                               IF nal_type(nal) = 8 THEN Append(pps, nal) ELSE pps)

extract_parameter_sets_from_extradata_h264_avc_annexb(bytes) ==
    LET first == find_avc_start_code(bytes, 0)
    IN  annexb_units(bytes, IF first = None THEN None ELSE Some(first[1][2]),
                     None, <<>>)

extract_parameter_sets_h264(extradata_bytes) ==
    IF extradata_bytes # <<>>
    THEN CASE extradata_bytes[1] = 0 ->
                  extract_parameter_sets_from_extradata_h264_avc_annexb(extradata_bytes)
           [] extradata_bytes[1] = 1 ->
                  extract_parameter_sets_from_extradata_h264_avcc(extradata_bytes)
           [] OTHER -> InvalidExtraData
    ELSE InvalidExtraData

\* Longest run of bytes after the SPS length field of an AVCC blob.
MaxAvcc == 6

\* Longest Annex B blob.
MaxAnnexB == 8

\* AVCC blobs: version 1, five bytes the parser does not read, the SPS
\* length, then any bytes.
AvccBytes == {0, 1, 2}

AvccBlobs ==
    {<<1, 100, 0, 31, 255, 225, hi, lo>> \o rest :
        hi \in {0, 255}, lo \in {0, 1, 2, 255},
        rest \in UNION {[1..n -> AvccBytes] : n \in 0..MaxAvcc}}

\* Annex B blobs: a zero, then any bytes among the two of a start code,
\* 0x67 and 0x27 (type 7), 0x68 (type 8).
AnnexBBytes == {0, 1, 39, 103, 104}

AnnexBBlobs ==
    {<<0>> \o rest : rest \in UNION {[1..n -> AnnexBBytes] : n \in 0..(MaxAnnexB - 1)}}

InitExtradata ==
    /\ InitObjects
    /\ \E bytes \in AvccBlobs \cup AnnexBBlobs \cup {<<>>, <<2>>} :
          pure = [op |-> "extradata", args |-> <<bytes>>, result |-> <<>>]

ExtractParameterSetsH264 ==
    /\ pure.op = "extradata"
    /\ Converted("extract_parameter_sets_h264", pure.args,
                 extract_parameter_sets_h264(pure.args[1]))

NextExtradata ==
    \/ ExtractParameterSetsH264

SpecExtradata == InitExtradata /\ [][NextExtradata]_vars

----------------------------------------------------------------------------
(* DecoderSplit, the formats of its frames (decode.rs). The decoder is     *)
(* built from the stream's pixel format and size, an optional resize and an *)
(* optional hardware device; a frame the codec hands out has the stream's   *)
(* size and either the device's pixel format or the stream's own.           *)

HWACCEL_PIXEL_FORMAT == "NV12"

\* Pixel formats of the streams: none (parameters missing) and three real ones.
StreamPixelFormats == {"None", "RGB24", "YUV420P", "NV12"}

\* Pixel formats of the hardware devices.
DevicePixelFormats == {"CUDA", "VAAPI"}

\* Sizes of the streams.
StreamSizes == {<<0, 2>>, <<2, 2>>, <<4, 2>>}

\* Resize strategies asked for.
Resizes ==
    {[strategy |-> "Exact", dims |-> <<2, 2>>],
     [strategy |-> "Fit", dims |-> <<2, 2>>],
     [strategy |-> "Fit", dims |-> <<0, 2>>]}

\* DecoderSplit::new from the opened stream on: the parameter check, the
\* output size, the scaler if one is needed.
DecoderSplit_new(format, size, resize, hwaccel_context) ==
    IF format = "None" \/ size[1] = 0 \/ size[2] = 0
    THEN [result |-> "MissingCodecParameters"]
    ELSE LET resized == IF resize = None THEN Some(size) ELSE compute_for(resize[1], size)
         IN  IF resized = None THEN [result |-> "InvalidResizeParameters"]
             ELSE LET scaler_input_format == IF hwaccel_context # None
                                             THEN HWACCEL_PIXEL_FORMAT
                                             ELSE format
                      is_scaler_needed == ~(/\ scaler_input_format = FRAME_PIXEL_FORMAT
                                            /\ size[1] = resized[1][1]
                                            /\ size[2] = resized[1][2])
                  IN  [result |-> "Ok",
                       decoder |-> [format |-> format, width |-> size[1], height |-> size[2]],
                       hwaccel_context |-> hwaccel_context,
                       scaler |-> IF is_scaler_needed
                                  THEN Some([input |-> [format |-> scaler_input_format,
                                                        width |-> size[1],
                                                        height |-> size[2]],
                                             output |-> [format |-> FRAME_PIXEL_FORMAT,
                                                         width |-> resized[1][1],
                                                         height |-> resized[1][2]]])
                                  ELSE None,
                       size |-> size,
                       size_out |-> resized[1]]

\* The frames the codec of `d` may hand out.
DecodedFrames(d) ==
    {[format |-> f, width |-> d.decoder.width, height |-> d.decoder.height] :
        f \in {d.decoder.format}
              \cup (IF d.hwaccel_context = None THEN {} ELSE {d.hwaccel_context[1].format})}

\* decoder.send_packet and decoder_receive_frame with the answer `answer`:
\* "frame" (the frame `frame`), "again" or "error".
receive_frame_answer(m, sent, answer, frame) ==
    IF ~sent THEN Fail(Answered(m, "send_packet", "error"))
    ELSE LET m1 == Answered(Answered(m, "send_packet", "ok"), "receive_frame", answer)
         IN  CASE answer = "again" -> m1
               [] answer = "error" -> Fail(m1)
               [] OTHER -> [m1 EXCEPT !.out = Some(frame)]

\* The download of a frame in the device's format: a frame in
\* HWACCEL_PIXEL_FORMAT with the properties of the one it came from.
hwdevice_transfer_frame(m, ok) ==
    IF m.result # "Pending" \/ m.out = None \/ m.e.hwaccel_context = None THEN m
    ELSE IF m.e.hwaccel_context[1].format # m.out[1].format THEN m
    ELSE IF ok
    THEN [Answered(m, "hwdevice_transfer_frame", "ok") EXCEPT
             !.out = Some([m.out[1] EXCEPT !.format = HWACCEL_PIXEL_FORMAT])]
    ELSE [Fail(Answered(m, "hwdevice_transfer_frame", "error")) EXCEPT !.out = None]

\* scaler.run(&frame, &mut frame_scaled) when there is a scaler: the scaler
\* refuses a frame that is not what it was built for.
scaler_run_frame(m, ok) ==
    IF m.result # "Pending" \/ m.out = None \/ m.e.scaler = None THEN m
    ELSE LET handed == [m EXCEPT !.ops = Append(@, [op |-> "scaler_run", frame |-> m.out[1],
                                                     answer |-> IF ok /\ m.out[1] = m.e.scaler[1].input
                                                                THEN "ok" ELSE "error"])]
         IN  IF m.out[1] # m.e.scaler[1].input THEN [Refuse(handed) EXCEPT !.out = None]
             ELSE IF ok THEN [handed EXCEPT !.out = Some(m.e.scaler[1].output)]
             ELSE [Fail(handed) EXCEPT !.out = None]

\* DecoderSplit::decode_raw, the way of the frame.
DecoderSplit_decode_raw_frame(d, f, ch) ==
    Return(scaler_run_frame(hwdevice_transfer_frame(receive_frame_answer(Begin(d, f), ch.send,
                                                                         ch.answer, ch.frame),
                                                    ch.transfer),
                            ch.scale),
           "Ok")

\* What the engine does in one decode_raw call; at most one of its calls
\* fails.
FrameChoices(d, canFail) ==
    {[send |-> TRUE, answer |-> a, frame |-> frame, transfer |-> TRUE, scale |-> TRUE] :
        a \in {"frame", "again"}, frame \in DecodedFrames(d)}
    \cup (IF canFail
          THEN {[send |-> s, answer |-> a, frame |-> frame, transfer |-> t, scale |-> c] :
                   s \in BOOLEAN, a \in {"frame", "error"}, frame \in DecodedFrames(d),
                   t \in BOOLEAN, c \in BOOLEAN}
          ELSE {})

InitFormat ==
    /\ InitMuxer
    /\ dec = [result |-> "None"]
    /\ dec_call = NoSplitCall
    /\ pipe = [pc |-> "decode", frame |-> None]
    /\ pure = NoConversion
    /\ enc = NewEncoder(<<2, 2>>, FALSE)
    /\ call = NoCall
    /\ faults = 0
    /\ dropped = FALSE
    /\ hist = NoHistory

\* DecoderSplit::new
FormatNew ==
    /\ dec.result # "Ok"
    /\ \E format \in StreamPixelFormats, size \in StreamSizes,
          resize \in {None} \cup {Some(r) : r \in Resizes},
          hwaccel_context \in {None} \cup {Some([format |-> p]) : p \in DevicePixelFormats} :
          /\ dec' = DecoderSplit_new(format, size, resize, hwaccel_context)
          /\ dec_call' = [NoSplitCall EXCEPT !.result = dec'.result,
                                             !.arg = <<format, size, resize, hwaccel_context>>]
    /\ UNCHANGED <<encVars, muxVars, pipe, pureVars>>

\* decoder_split.decode_raw(packet)
FormatDecodeRaw ==
    /\ dec.result = "Ok"
    /\ \E ch \in FrameChoices(dec, dec_call.faults < MaxDecFaults) :
          SplitReturned(DecoderSplit_decode_raw_frame(dec, dec_call.faults, ch),
                        "decode_raw", <<>>)

NextFormat ==
    \/ FormatNew
    \/ FormatDecodeRaw

SpecFormat == InitFormat /\ [][NextFormat]_vars

----------------------------------------------------------------------------
(* The Muxer over a PacketizedBufWriter (io.rs, rtp.rs: RtpMuxer). The      *)
(* writer's output context has `pb`, the IO context the engine writes       *)
(* through, which pushes every packet the engine emits onto the buffer list *)
(* `buffers` it points to. `produced` is all the engine ever emitted, in    *)
(* order; `leaked` counts the IO contexts allocated and never freed.        *)

\* Buffers the engine emits in one call of it.
MaxOut == 1

\* PacketizedBufWriterBuilder::build.
NewPacketizedBufWriter ==
    [output |-> [pb |-> None], buffers |-> <<>>, produced |-> <<>>, leaked |-> 0]

\* PacketizedBufWriter::begin_write, ffi::output_raw_packetized_buf_start: a
\* new IO context with the buffer list behind it is assigned to `pb`; the one
\* `pb` held is not freed.
begin_write(m) ==
    [Op(m, "begin_write") EXCEPT !.e.writer.leaked = @ + (IF m.e.writer.output.pb = None THEN 0 ELSE 1),
                                 !.e.writer.output.pb = Some("buffers")]

\* An engine call on the output between begin_write and end_write: the engine
\* emits `n` packets through `pb`, then answers; `?` returns its error.
output_call(m, name, n, ok) ==
    IF m.result # "Pending" THEN m
    ELSE LET w == m.e.writer
             emitted == [i \in 1..n |-> [by |-> name, id |-> Len(w.produced) + i]]
             m1 == [Op(m, name) EXCEPT !.e.writer.buffers = @ \o emitted,
                                       !.e.writer.produced = @ \o emitted]
         IN  IF ok THEN m1 ELSE Fail(m1)

\* PacketizedBufWriter::end_write, ffi::output_raw_packetized_buf_end: the IO
\* context is freed and `pb` reset.
end_write(m) ==
    IF m.result # "Pending" THEN m
    ELSE [Op(m, "end_write") EXCEPT !.e.writer.output.pb = None]

\* `Ok(self.take_buffers())`: the call returns the buffer list and leaves an
\* empty one.
take_buffers(m) ==
    IF m.result # "Pending" THEN m
    ELSE [Op(m, "take_buffers") EXCEPT !.out = m.e.writer.buffers,
                                       !.e.writer.buffers = <<>>]

\* impl Write for PacketizedBufWriter.
PacketizedBufWriter_write_header(m, ch) ==
    IF m.result # "Pending" THEN m
    ELSE take_buffers(end_write(output_call(begin_write(m), "write_header", ch.header_n, ch.header)))

PacketizedBufWriter_write(m, name, ch) ==
    IF m.result # "Pending" THEN m
    ELSE take_buffers(end_write(output_call(output_call(begin_write(m), name, ch.n, ch.write),
                                            "flush_output", 0, ch.flush)))

PacketizedBufWriter_write_trailer(m, ch) ==
    IF m.result # "Pending" THEN m
    ELSE take_buffers(end_write(output_call(begin_write(m), "write_trailer", ch.n, ch.write)))

\* Muxer::mux over the PacketizedBufWriter: the header write of the first
\* call, whose buffers are dropped with its result, then the packet routed
\* and written; the call returns the buffers of the packet write.
packetized_mux(e, f, packet, ch) ==
    LET m0 == Begin(e, f)
        m1 == IF e.have_written_header THEN m0
              ELSE PacketizedBufWriter_write_header([m0 EXCEPT !.e.have_written_header = TRUE], ch)
        m2 == [m1 EXCEPT !.out = <<>>]
    IN  IF m2.result # "Pending" THEN m2
        ELSE IF packet.stream \notin DOMAIN e.mapping THEN Return(m2, "StreamNotFound")
        ELSE IF e.mapping[packet.stream].index + 1 \notin DOMAIN e.streams
             THEN Return(m2, "StreamNotFound")
        ELSE Return(PacketizedBufWriter_write(m2, IF e.interleaved THEN "write_interleaved"
                                                                   ELSE "write", ch),
                    "Ok")

\* Muxer::finish over the PacketizedBufWriter.
packetized_finish(e, f, ch) ==
    Return(PacketizedBufWriter_write_trailer(Begin(e, f), ch), "Ok")

\* What the engine calls of one writer operation do: how many packets each
\* emits and which of them fails.
PacketizedChoices(canFail) ==
    {[header |-> TRUE, write |-> TRUE, flush |-> TRUE, header_n |-> hn, n |-> n] :
        hn \in 0..MaxOut, n \in 0..MaxOut}
    \cup (IF canFail
          THEN {[header |-> FALSE, write |-> TRUE, flush |-> TRUE, header_n |-> hn, n |-> 0] :
                   hn \in 0..MaxOut}
               \cup {[header |-> TRUE, write |-> FALSE, flush |-> TRUE, header_n |-> hn, n |-> n] :
                        hn \in 0..MaxOut, n \in 0..MaxOut}
               \cup {[header |-> TRUE, write |-> TRUE, flush |-> FALSE, header_n |-> hn, n |-> n] :
                        hn \in 0..MaxOut, n \in 0..MaxOut}
          ELSE {})

\* What a call hands to its caller: the buffers with Ok, none with an error.
Handed(m) == IF m.result = "Ok" THEN m.out ELSE <<>>

InitPacketized ==
    /\ mux = [NewMuxer EXCEPT !.writer = NewPacketizedBufWriter]
    /\ mux_call = [op |-> "new", arg |-> <<>>, result |-> "Ok", ops |-> <<>>, out |-> <<>>]
    /\ mux_faults = 0
    /\ mux_dropped = FALSE
    /\ mux_hist = [muxes |-> 0, finishes |-> 0, returned |-> <<>>]
    /\ InitDecoder({<<>>}, {0})
    /\ enc = NewEncoder(<<2, 2>>, FALSE)
    /\ call = NoCall
    /\ faults = 0
    /\ dropped = FALSE
    /\ hist = NoHistory
    /\ pure = NoConversion

\* RtpMuxer::mux.
PacketizedMux ==
    /\ ~mux_dropped
    /\ mux_hist.muxes < MaxMux
    /\ \E packet \in MuxPackets, ch \in PacketizedChoices(mux_faults < MaxMuxFaults) :
          LET m == packetized_mux(mux, mux_faults, packet, ch)
          IN  /\ MuxReturned([m EXCEPT !.out = Handed(m)], "mux", packet)
              /\ mux_hist' = [mux_hist EXCEPT !.muxes = @ + 1,
                                              !.returned = @ \o Handed(m)]
    /\ UNCHANGED mux_dropped
    /\ UNCHANGED <<encVars, pipeVars, pureVars>>

\* RtpMuxer::finish.
PacketizedFinish ==
    /\ ~mux_dropped
    /\ mux_hist.finishes < MaxFinish
    /\ \E ch \in PacketizedChoices(mux_faults < MaxMuxFaults) :
          LET m == packetized_finish(mux, mux_faults, ch)
          IN  /\ ch.header /\ ch.flush /\ ch.header_n = 0
              /\ MuxReturned([m EXCEPT !.out = Handed(m)], "finish", <<>>)
              /\ mux_hist' = [mux_hist EXCEPT !.finishes = @ + 1,
                                              !.returned = @ \o Handed(m)]
    /\ UNCHANGED mux_dropped
    /\ UNCHANGED <<encVars, pipeVars, pureVars>>

NextPacketized ==
    \/ WithStream({info \in StreamInfos : info.time_base = <<1, 2>>})
    \/ Interleaved
    \/ PacketizedMux
    \/ PacketizedFinish
    \/ MuxDrop

SpecPacketized == InitPacketized /\ [][NextPacketized]_vars

----------------------------------------------------------------------------
(* The Muxer alone. *)

SpecMux == InitLong /\ [][NextMux]_vars

SpecMuxRoute == InitLong /\ [][NextMuxRoute]_vars

----------------------------------------------------------------------------
(* What the container holds.                                                *)

Count(w, op) == Cardinality({i \in DOMAIN w : w[i].op = op})

HeaderWritten(w) == Count(w, "header") > 0

TrailerWritten(w) == Count(w, "trailer") > 0

IsPacket(entry) == entry.op \in {"write", "write_interleaved"}

\* The ids of the packets the container holds, in the order written.
PacketIds(w) ==
    LET idx == {i \in DOMAIN w : IsPacket(w[i])}
        RECURSIVE ids(_)
        ids(n) == IF n = 0 THEN <<>>
                  ELSE IF n \in idx THEN Append(ids(n - 1), w[n].packet.id) ELSE ids(n - 1)
    IN  ids(Len(w))

Has(ops, name) == \E i \in DOMAIN ops : ops[i] = name

\* Whether `a` occurs in `ops` and every `b` in `ops` comes after it.
Before(ops, a, b) ==
    /\ Has(ops, a)
    /\ \A i, j \in DOMAIN ops : ops[i] = a /\ ops[j] = b => i < j

IsFinish(c) == c.op \in {"finish", "drop"}

----------------------------------------------------------------------------
(* Claims about the Encoder.                                                *)

\* C1: over every sequence of encode_raw and finish calls ending with the
\* drop, the container trailer is written at most once; and a finish made
\* after an earlier finish that found the header written returns Ok and
\* makes no encoder or writer operation.
C1_TrailerAtMostOnce ==
    /\ [](Count(enc.writer, "trailer") <= 1)
    /\ [][hist.found_header > 0 /\ call'.op = "finish"
            => call'.result = "Ok" /\ call'.ops = <<>> /\ enc' = enc]_vars

\* C1 witness: a second finish has returned after a first one wrote the
\* trailer.
C1_Witness ==
    /\ hist.found_header >= 2
    /\ call.op = "finish"
    /\ call.ops = <<>>
    /\ Count(enc.writer, "trailer") = 1

\* C3 as stated: once an Encoder that wrote the header has been dropped,
\* the trailer has been written, whatever an explicit finish returned.
C3_TrailerByDrop ==
    dropped /\ HeaderWritten(enc.writer) => TrailerWritten(enc.writer)

\* C3 as amended: once an Encoder that wrote the header has been dropped,
\* finish has run its flush-and-trailer sequence exactly once (explicitly or
\* at the drop), the trailer has been written if and only if that run
\* returned Ok, and the drop itself returns no error.
C3_TrailerByDropIfFinishOk ==
    dropped /\ HeaderWritten(enc.writer)
        => /\ hist.runs = 1
           /\ TrailerWritten(enc.writer) <=> hist.result = "Ok"
           /\ call.op = "drop" /\ call.result = "None"

\* C3 witness: an Encoder that wrote the header and was never finished
\* explicitly has been dropped, and the drop wrote the trailer.
C3_Witness ==
    /\ dropped
    /\ hist.found_header = 1
    /\ call.ops # <<>>
    /\ HeaderWritten(enc.writer)
    /\ TrailerWritten(enc.writer)

\* C5: the trailer is in the container only after the header; a finish or a
\* drop on an Encoder that never wrote the header writes nothing and does
\* not signal the end of the stream to the encoder.
C5_TrailerOnlyAfterHeader ==
    /\ [](TrailerWritten(enc.writer) => HeaderWritten(enc.writer))
    /\ [][IsFinish(call') /\ ~HeaderWritten(enc.writer)
            => /\ enc'.writer = enc.writer
               /\ ~enc'.encoder.eof
               /\ call'.ops = <<>>]_vars

\* C5 witness: a finish has returned on an Encoder whose only header write
\* failed.
C5_Witness ==
    /\ call.op = "finish"
    /\ faults > 0
    /\ enc.writer = <<>>
    /\ ~enc.encoder.eof

\* C6: construction writes no header; the first encode_raw whose frame
\* passes validation writes the header before it feeds the frame; and once
\* a header write has succeeded no later call writes the header again.
C6_HeaderLazyAndOnce ==
    /\ [](call.op = "new" => enc.writer = <<>>)
    /\ [](Count(enc.writer, "header") <= 1)
    /\ [](enc.encoder.fed > 0 => HeaderWritten(enc.writer))
    /\ [][call'.op = "encode_raw" /\ call'.result # "InvalidFrameFormat"
            => IF HeaderWritten(enc.writer)
               THEN ~Has(call'.ops, "write_header")
               ELSE /\ call'.ops[1] = "write_header"
                    /\ Has(call'.ops, "send_frame") => Before(call'.ops, "write_header", "send_frame")]_vars

\* C6 witness: the header was written once, a frame was fed in that call,
\* and a later call fed another frame without a header write.
C6_Witness ==
    /\ Count(enc.writer, "header") = 1
    /\ enc.encoder.fed >= 2
    /\ call.op = "encode_raw"
    /\ call.ops[1] = "scale"

\* C7: encode_raw with a frame whose width, height or pixel format differs
\* from the contract returns InvalidFrameFormat and changes nothing: no
\* header, nothing passed to the scaler or the encoder, counter and flags
\* as before.
C7_InvalidFrameChangesNothing ==
    [][/\ call'.op = "encode_raw"
       /\ \/ call'.arg.width # enc.scaler_width
          \/ call'.arg.height # enc.scaler_height
          \/ call'.arg.format # "RGB24"
       => /\ call'.result = "InvalidFrameFormat"
          /\ call'.ops = <<>>
          /\ enc' = enc]_vars

\* C7 witness: an Encoder that has written the header and a packet has
\* rejected a frame of another pixel format.
C7_Witness ==
    /\ call.op = "encode_raw"
    /\ call.result = "InvalidFrameFormat"
    /\ call.arg.format # FRAME_PIXEL_FORMAT
    /\ call.arg.width = enc.scaler_width
    /\ call.arg.height = enc.scaler_height
    /\ HeaderWritten(enc.writer)
    /\ enc.frame_count >= 1

\* C8 as stated: counting from 0 the frames fed to the encoder, frame k is
\* forced to picture type I exactly when k is a multiple of 12.
C8_KeyFrameEveryTwelfthFrame ==
    enc.encoder.fed > 0
        => (enc.encoder.last_pict = "I" <=> (enc.encoder.fed - 1) % 12 = 0)

\* C9 as stated: when finish returns Ok on an Encoder that wrote a header,
\* the container holds the header, then one packet for every frame fed, in
\* the order the encoder emits them, then the trailer.
C9_FinishFlushesEverything ==
    call.op = "finish" /\ call.result = "Ok" /\ HeaderWritten(enc.writer)
        => /\ PacketIds(enc.writer) = [i \in 1..enc.encoder.fed |-> i]
           /\ enc.writer[1].op = "header"
           /\ enc.writer[Len(enc.writer)].op = "trailer"

----------------------------------------------------------------------------
(* Claims about the Muxer.                                                  *)

\* C2 as stated: calling finish twice on a Muxer writes the container
\* trailer exactly once; the second call writes nothing. (Taken where both
\* calls came after the header and a packet, and no writer operation
\* failed.)
C2_MuxerFinishTwiceOneTrailer ==
    /\ mux_hist.finishes = 2
    /\ mux_hist.finishes_after_header = 2
    /\ \E i \in DOMAIN mux.writer : IsPacket(mux.writer[i])
    /\ mux_faults = 0
    => Count(mux.writer, "trailer") = 1

\* C4 as stated: a Muxer that wrote a header and has been dropped, with or
\* without one explicit finish before, has had its trailer written exactly
\* once. (Taken where a packet was written, no writer operation failed, and
\* the finish, if any, came after the header.)
C4_MuxerDropFinishesOnce ==
    /\ mux_dropped
    /\ HeaderWritten(mux.writer)
    /\ \E i \in DOMAIN mux.writer : IsPacket(mux.writer[i])
    /\ mux_faults = 0
    /\ mux_hist.finishes <= 1
    /\ mux_hist.finishes_after_header = mux_hist.finishes
    => Count(mux.writer, "trailer") = 1

\* The packets the container holds, in the order written.
Packets(w) == SelectSeq(w, IsPacket)

\* C13: neither construction nor with_stream, with_streams or interleaved
\* writes anything; the first mux call starts with the header write, and
\* when it succeeds the container has gained the header and then the packet;
\* no later mux call writes the header; the container never holds two.
C13_MuxHeaderFirstAndOnce ==
    /\ [](mux_call.op = "new" => mux.writer = <<>>)
    /\ [](Count(mux.writer, "header") <= 1)
    /\ [][mux_call'.op \in {"with_stream", "with_streams", "interleaved"}
            => mux'.writer = mux.writer]_vars
    /\ [][mux_call'.op = "mux"
            => IF mux_hist.muxes = 0
               THEN /\ mux_call'.ops[1] = "write_header"
                    /\ mux_call'.result = "Ok"
                          => /\ Len(mux'.writer) = Len(mux.writer) + 2
                             /\ mux'.writer[Len(mux.writer) + 1].op = "header"
                             /\ IsPacket(mux'.writer[Len(mux.writer) + 2])
               ELSE ~Has(mux_call'.ops, "write_header")]_vars

\* C13 witness: a second mux call has written its packet; the container
\* holds one header, written before both packets.
C13_Witness ==
    /\ mux_call.op = "mux"
    /\ mux_call.result = "Ok"
    /\ mux_hist.muxes >= 2
    /\ mux_faults = 0
    /\ Count(mux.writer, "header") = 1
    /\ Len(Packets(mux.writer)) = 2
    /\ mux.writer[1].op = "header"

\* C14 as stated: mux with a packet of a stream that has no mapping entry
\* fails with StreamNotFound, writes no packet and leaves the mapping as it
\* is; a mux with a mapped packet succeeds, also after such a failure.
C14_UnmappedIsStreamNotFound ==
    [][mux_call'.op = "mux"
         => IF mux_call'.arg.stream \notin DOMAIN mux.mapping
            THEN /\ mux_call'.result = "StreamNotFound"
                 /\ Packets(mux'.writer) = Packets(mux.writer)
                 /\ mux'.mapping = mux.mapping
            ELSE mux_faults' = mux_faults
                    => /\ mux_call'.result = "Ok"
                       /\ Len(Packets(mux'.writer)) = Len(Packets(mux.writer)) + 1]_vars

\* C14 as amended: such a mux fails, with StreamNotFound unless it is the
\* first mux call and its header write fails (then with that error); it
\* writes no packet and leaves the mapping and the streams as they are; a
\* mux with a mapped packet succeeds, also after such a failure, when its
\* writer operations do.
C14_UnmappedFailsWritesNoPacket ==
    [][mux_call'.op = "mux"
         => IF mux_call'.arg.stream \notin DOMAIN mux.mapping
            THEN /\ \/ mux_call'.result = "StreamNotFound"
                    \/ /\ mux_call'.result = "BackendError"
                       /\ mux_hist.muxes = 0
                       /\ mux_call'.ops = <<"write_header">>
                       /\ mux_faults' = mux_faults + 1
                 /\ Packets(mux'.writer) = Packets(mux.writer)
                 /\ mux'.mapping = mux.mapping
                 /\ mux'.streams = mux.streams
            ELSE mux_faults' = mux_faults
                    => /\ mux_call'.result = "Ok"
                       /\ Len(Packets(mux'.writer)) = Len(Packets(mux.writer)) + 1]_vars

\* C14 witness: after a mux that failed with StreamNotFound, a mux with a
\* mapped packet has written its packet.
C14_Witness ==
    /\ mux_call.op = "mux"
    /\ mux_call.result = "Ok"
    /\ mux_hist.not_found >= 1
    /\ mux_call.arg.stream \in DOMAIN mux.mapping
    /\ Len(Packets(mux.writer)) >= 1

\* C15 as stated: once a Muxer has written its header, no operation changes
\* its stream mapping or its destination streams.
C15_MappingFixedAfterHeader ==
    [][HeaderWritten(mux.writer)
         => /\ mux'.mapping = mux.mapping
            /\ mux'.streams = mux.streams]_vars

----------------------------------------------------------------------------
(* Claims about decoding into an Encoder.                                   *)

\* C10 as stated: decoding a stream of N frames with Decoder::decode until
\* it reports ReadExhausted, passing each decoded frame to an Encoder of the
\* same dimensions and then calling finish, writes exactly N packets to the
\* output container.
C10_SameFrameCount ==
    pipe.pc = "done" /\ call.result = "Ok"
        => Len(PacketIds(enc.writer)) = StreamFrames(dec)

----------------------------------------------------------------------------
(* Claims about the Reader and the Decoder.                                 *)

\* The packets of stream `sel` that `source` holds at positions from..to-1,
\* by position, in order.
RECURSIVE Selected(_, _, _, _)
Selected(source, from, to, sel) ==
    IF from >= to \/ from > Len(source) THEN <<>>
    ELSE (IF source[from] = Some(sel) THEN <<from>> ELSE <<>>)
         \o Selected(source, from + 1, to, sel)

\* Whether the last n items of `seen` are all empty reads.
EndsWithEmpty(seen, n) ==
    /\ Len(seen) >= n
    /\ \A i \in (Len(seen) - n + 1)..Len(seen) : seen[i] = None

\* C11: every Decoder::decode_raw call ends with a frame or an error. It
\* feeds exactly the packets of the selected stream that it read, in read
\* order, and returns the frame the last of them made the decoder yield, or
\* ReadExhausted when the reader reported it with no frame yielded, or the
\* engine's error; it never returns Ok without a frame.
C11_DecodeRawFrameOrExhausted ==
    [][dec_call'.op = "decode_raw" =>
         LET c == dec_call'
             before == dec.decoder.decoder
             after == dec'.decoder.decoder
         IN  /\ c.fed = Selected(dec.reader.source, dec.reader.pos, dec'.reader.pos,
                                 dec.reader_stream_index)
             /\ \/ /\ c.result = "Ok"
                   /\ c.out # None
                   /\ Len(c.fed) >= 1
                   /\ after.fed = before.fed + Len(c.fed)
                   /\ after.emitted = before.emitted + 1
                \/ /\ c.result = "ReadExhausted"
                   /\ c.out = None
                   /\ EndsWithEmpty(c.seen, 1)
                   /\ after.fed = before.fed + Len(c.fed)
                   /\ after.emitted = before.emitted
                \/ /\ c.result = "BackendError"
                   /\ c.out = None
                   /\ c.raised]_vars

\* C11 witness: a decode_raw call read past an empty read or a packet of
\* another stream, fed two packets or more and returned a frame.
C11_Witness ==
    /\ dec_call.op = "decode_raw"
    /\ dec_call.result = "Ok"
    /\ dec_call.out # None
    /\ Len(dec_call.fed) >= 2
    /\ Len(dec_call.seen) > Len(dec_call.fed)

\* C12 as stated: Reader::read returns ReadExhausted exactly when the source
\* yielded 4 consecutive empty reads during the call, with no packet of any
\* stream in between; otherwise it returns the first packet of the stream
\* asked for, never one of another stream.
C12_ExhaustedAfterFourConsecutive ==
    dec_call.op = "read" =>
        /\ dec_call.result = "ReadExhausted" <=> EndsWithEmpty(dec_call.seen, 4)
        /\ dec_call.result = "Ok" =>
              /\ dec_call.out[1].stream = dec_call.arg[1]
              /\ dec_call.seen[Len(dec_call.seen)] = Some(dec_call.arg[1])
              /\ \A i \in 1..(Len(dec_call.seen) - 1) : dec_call.seen[i] # Some(dec_call.arg[1])

----------------------------------------------------------------------------
(* Claims about errors.                                                     *)

\* C16 as stated: every error the codec engine or the writer raises during
\* an explicit encode_raw, finish, DecoderSplit::decode_raw or mux call is
\* returned to the caller as an error result.
C16_PerCallErrorsReturned ==
    [][/\ call'.op \in {"encode_raw", "finish"} /\ faults' > faults
            => call'.result \notin {"Ok", "None"}
       /\ mux_call'.op = "mux" /\ mux_faults' > mux_faults
            => mux_call'.result # "Ok"
       /\ dec_call'.op = "split_decode_raw" /\ dec_call'.raised
            => dec_call'.result # "Ok"]_vars

----------------------------------------------------------------------------
(* Claims about conversions.                                                *)

\* C17: a buffer converted to RtpBuf is Rtcp if and only if it has at least
\* 2 bytes and its byte at offset 1 is 200; every other buffer, the empty
\* and the 1-byte ones included, is Rtp; the bytes are carried unchanged,
\* also back into a Buf.
C17_RtcpIffSecondByte200 ==
    LET buf == pure.args[1]
    IN  /\ pure.op = "RtpBuf::from"
            => /\ pure.result.kind = (IF Len(buf) >= 2 /\ buf[2] = 200 THEN "Rtcp" ELSE "Rtp")
               /\ Len(buf) < 2 => pure.result.kind = "Rtp"
               /\ pure.result.buf = buf
        /\ pure.op = "Buf::from" => pure.result = buf

\* C17 witness: a 3-byte buffer whose first byte is not 200 and whose second
\* byte is has been classified Rtcp and converted back.
C17_Witness ==
    /\ pure.op = "Buf::from"
    /\ Len(pure.args[1]) = 3
    /\ pure.args[1][1] # 200
    /\ pure.args[1][2] = 200
    /\ RtpBuf_from(pure.args[1]).kind = "Rtcp"

\* C18: a Time built with no tick value, in any time base, reports
\* has_value() false, converts to 0.0 seconds and to a zero Duration, and
\* into_value() returns None.
C18_ValuelessTime ==
    pure.op \in {"has_value", "as_secs", "as_secs_f64", "Duration::from", "into_value"}
    /\ pure.args[1].time = None
        => /\ pure.op = "has_value" => pure.result = FALSE
           /\ pure.op \in {"as_secs", "as_secs_f64"} => pure.result[1] = 0 /\ pure.result[2] # 0
           /\ pure.op = "Duration::from" => ~pure.result.panicked /\ pure.result.secs[1] = 0
           /\ pure.op = "into_value" => pure.result = None

\* C18 witness: Time::new(None, 0/0) has been converted to a Duration of
\* zero seconds.
C18_Witness ==
    /\ pure.op = "Duration::from"
    /\ pure.args[1] = [time |-> None, time_base |-> <<0, 0>>]
    /\ pure.result.secs[1] = 0

Abs(x) == IF x < 0 THEN -x ELSE x

\* Whether r is an integer nearest to n / d, for d > 0.
Nearest(r, n, d) == 2 * Abs(r * d - n) <= d

\* b's ticks as a quantity of a's time base: the fraction
\* <<ticks * b.num * a.den, b.den * a.num>>.
InBaseOf(a, b) ==
    <<b.time[1] * b.time_base[1] * a.time_base[2], b.time_base[2] * a.time_base[1]>>

\* C19: a.aligned_with(b).add() and .subtract() return a Time in a's time
\* base that has a value if and only if both a and b have one; the value is
\* a's ticks plus (minus) b's ticks rescaled into a's time base; with an
\* absent side the result is valueless, not an error.
C19_AddSubtractIfBothPresent ==
    pure.op \in {"add", "subtract"} =>
        LET a == pure.args[1]
            b == pure.args[2]
            r == pure.result
        IN  /\ r.time_base = a.time_base
            /\ r.time # None <=> (a.time # None /\ b.time # None)
            /\ r.time # None =>
                  LET q == InBaseOf(a, b)
                      moved == IF pure.op = "add" THEN r.time[1] - a.time[1]
                               ELSE a.time[1] - r.time[1]
                  IN  Nearest(moved, q[1], q[2])

\* C19 witness: 3 units of 1/16 plus 1 unit of 1/8 gave 5 units of 1/16.
C19_Witness ==
    /\ pure.op = "add"
    /\ pure.args = <<[time |-> Some(3), time_base |-> <<1, 16>>],
                     [time |-> Some(1), time_base |-> <<1, 8>>]>>
    /\ pure.result = [time |-> Some(5), time_base |-> <<1, 16>>]

\* C20: a.aligned_with(b) keeps a's ticks and time base and holds b's ticks
\* converted into a's time base, ticks * b.num * a.den / (b.den * a.num)
\* rounded to the nearest integer: 3 units of 1/16 with 1 unit of 1/8 give
\* 3 and 2, 2 units of 1/7 with 2 units of 1/3 give 2 and 5; absent ticks
\* stay absent.
C20_AlignedWithRescalesToNearest ==
    pure.op = "aligned_with" =>
        LET a == pure.args[1]
            b == pure.args[2]
            r == pure.result
        IN  /\ r.lhs = a.time
            /\ r.time_base = a.time_base
            /\ r.rhs = None <=> b.time = None
            /\ r.rhs # None => Nearest(r.rhs[1], InBaseOf(a, b)[1], InBaseOf(a, b)[2])
            /\ (a = [time |-> Some(3), time_base |-> <<1, 16>>]
                /\ b = [time |-> Some(1), time_base |-> <<1, 8>>])
                  => r.lhs = Some(3) /\ r.rhs = Some(2)
            /\ (a = [time |-> Some(2), time_base |-> <<1, 7>>]
                /\ b = [time |-> Some(2), time_base |-> <<1, 3>>])
                  => r.lhs = Some(2) /\ r.rhs = Some(5)

\* C20 witness: 2 units of 1/7 have been aligned with 2 units of 1/3.
C20_Witness ==
    /\ pure.op = "aligned_with"
    /\ pure.args = <<[time |-> Some(2), time_base |-> <<1, 7>>],
                     [time |-> Some(2), time_base |-> <<1, 3>>]>>
    /\ pure.result.rhs = Some(5)

----------------------------------------------------------------------------
(* Resize.                                                                  *)

InCandidates ==
    \A i \in 1..2 : \A j \in 1..2 : pure.args[i][j] \in TESTING_DIM_CANDIDATES

HasZero(dims) == dims[1] = 0 \/ dims[2] = 0

Within(out, fit_dims) == out[1] <= fit_dims[1] /\ out[2] <= fit_dims[2]

\* C21: for source dimensions and bounds among the candidates 0, 1, 2, 3, 8,
\* 111, 256, 1000, the dimensions Fit returns are within the bound on both
\* axes, and one of them is zero only if a source or a bound dimension is.
C21_FitWithinBound ==
    pure.op = "Fit" /\ InCandidates /\ pure.result # None
        => /\ Within(pure.result[1], pure.args[2])
           /\ HasZero(pure.result[1])
                  => HasZero(pure.args[1]) \/ HasZero(pure.args[2])

\* C21 witness: Fit has scaled 1000 x 256 down into 111 x 111.
C21_Witness ==
    /\ pure.op = "Fit"
    /\ pure.args = <<(<<1000, 256>>), (<<111, 111>>)>>
    /\ pure.result # None
    /\ pure.result[1] # pure.args[1]

\* floor(n * min(w_max / w, h_max / h)) for n one of w, h, in exact
\* arithmetic (w, h > 0).
ScaledExactly(n, dims, fit_dims) ==
    IF fit_dims[1] * dims[2] <= fit_dims[2] * dims[1]
    THEN (n * fit_dims[1]) \div dims[1]
    ELSE (n * fit_dims[2]) \div dims[2]

\* C22: Fit returns the source dimensions when they are within the bound on
\* both axes; otherwise both are multiplied by min(bound.w / src.w,
\* bound.h / src.h) and truncated, and the result is None if either of them
\* is zero.
C22_FitScalesByMinRatio ==
    pure.op = "Fit"
        => LET dims == pure.args[1]
               fit_dims == pure.args[2]
               out == IF HasZero(dims) THEN <<0, 0>>
                      ELSE <<ScaledExactly(dims[1], dims, fit_dims),
                             ScaledExactly(dims[2], dims, fit_dims)>>
           IN  IF Within(dims, fit_dims) THEN pure.result = Some(dims)
               ELSE IF HasZero(out) THEN pure.result = None
               ELSE pure.result = Some(out)

\* C23: for source dimensions and bounds among the candidates, FitEven
\* returns None or dimensions that are both even, both non-zero and within
\* the bound on both axes.
C23_FitEvenIsEvenWithinBound ==
    pure.op = "FitEven" /\ InCandidates /\ pure.result # None
        => /\ pure.result[1][1] % 2 = 0 /\ pure.result[1][2] % 2 = 0
           /\ ~HasZero(pure.result[1])
           /\ Within(pure.result[1], pure.args[2])

\* C23 witness: FitEven has fitted 111 x 3 into 256 x 256, where the source
\* fits as it is but is odd, and has returned smaller, even dimensions.
C23_Witness ==
    /\ pure.op = "FitEven"
    /\ pure.args = <<(<<111, 3>>), (<<256, 256>>)>>
    /\ pure.result # None
    /\ pure.result[1] # pure.args[1]

----------------------------------------------------------------------------
(* Parameter sets.                                                          *)

Extracted == pure.op = "extract_parameter_sets_h264"

\* The SPS length an AVCC blob declares.
SpsLength(bytes) == At(bytes, 6) * 256 + At(bytes, 7)

RECURSIVE EntryStart(_, _, _)
\* Offset of the j-th PPS entry when the entries before it have the lengths
\* lens[1], ..., lens[j - 1] and the first one starts at base.
EntryStart(base, lens, j) ==
    IF j = 1 THEN base ELSE EntryStart(base, lens, j - 1) + 2 + lens[j - 1]

\* The blob holds an SPS of its declared length, a PPS count equal to
\* Len(lens), and that many entries, the j-th declaring the length lens[j],
\* all of it inside the buffer.
DeclaresInside(bytes, lens) ==
    /\ Len(bytes) > 8 + SpsLength(bytes)
    /\ At(bytes, 8 + SpsLength(bytes)) = Len(lens)
    /\ \A j \in DOMAIN lens :
          LET start == EntryStart(9 + SpsLength(bytes), lens, j)
          IN  /\ start + 2 + lens[j] <= Len(bytes)
              /\ At(bytes, start) * 256 + At(bytes, start + 1) = lens[j]

PpsLengths == UNION {[1..n -> 0..MaxAvcc] : n \in 0..(MaxAvcc \div 2)}

IsAvcc(bytes) == Len(bytes) >= 8 /\ bytes[1] = 1

\* C24: from an AVCC blob that declares an SPS of length L at offset 6 and
\* n PPS entries, all inside the buffer, extraction returns the L bytes from
\* offset 8 as the SPS and the n PPS slices, each of its declared length, in
\* the order of the blob.
C24_AvccReturnsDeclaredSets ==
    Extracted /\ IsAvcc(pure.args[1])
        => LET bytes == pure.args[1]
           IN  \A lens \in PpsLengths :
                   DeclaresInside(bytes, lens)
                       => pure.result =
                              ParameterSets(
                                  Slice(bytes, 8, 8 + SpsLength(bytes)),
                                  [j \in DOMAIN lens |->
                                      LET start == EntryStart(9 + SpsLength(bytes), lens, j)
                                      IN  Slice(bytes, start + 2, start + 2 + lens[j])])

\* C25: an AVCC blob whose SPS length, PPS count or a PPS length reaches
\* past the end of the buffer is refused with InvalidExtraData, and nothing
\* is read outside the buffer.
C25_AvccPastEndIsInvalidExtraData ==
    Extracted /\ IsAvcc(pure.args[1])
        => LET bytes == pure.args[1]
           IN  /\ pure.result # Panicked
               /\ (\A lens \in PpsLengths : ~DeclaresInside(bytes, lens))
                      => pure.result = InvalidExtraData

\* Offsets of the start codes 00 00 01 (a 4-byte code is one of these after
\* a zero byte).
StartCodes(bytes) ==
    {p \in 0..(Len(bytes) - 3) : Slice(bytes, p, p + 3) = <<0, 0, 1>>}

\* Where the unit after the start code at p ends: at the next start code,
\* or before the zero that makes it a 4-byte one, or at the end.
UnitEnd(bytes, p) ==
    LET later == {q \in StartCodes(bytes) : q > p}
    IN  IF later = {} THEN Len(bytes)
        ELSE LET q == CHOOSE q \in later : \A r \in later : q <= r
             IN  IF q - 1 >= p + 3 /\ At(bytes, q - 1) = 0 THEN q - 1 ELSE q

\* The units between start codes, in order.
Units(bytes) ==
    LET codes == StartCodes(bytes)
    IN  [j \in 1..Cardinality(codes) |->
            LET p == CHOOSE p \in codes : Cardinality({q \in codes : q < p}) = j - 1
            IN  Slice(bytes, p + 3, UnitEnd(bytes, p))]

IsSps(nal) == nal # <<>> /\ nal[1] % 32 = 7

IsPps(nal) == nal # <<>> /\ nal[1] % 32 = 8

\* C26: from an Annex B blob extraction returns the first unit of type 7
\* between start codes (3-byte or 4-byte) as the SPS and all units of type 8
\* in order as the PPSs, and fails with InvalidExtraData if there is no unit
\* of type 7.
C26_AnnexBFirstSpsAllPps ==
    Extracted /\ pure.args[1] # <<>> /\ pure.args[1][1] = 0
        => LET units == Units(pure.args[1])
               spss == SelectSeq(units, IsSps)
           IN  IF spss = <<>> THEN pure.result = InvalidExtraData
               ELSE pure.result = ParameterSets(Head(spss), SelectSeq(units, IsPps))

----------------------------------------------------------------------------
(* DecoderSplit.                                                            *)

IsReceive(o) == o.op = "receive_frame"

IsError(o) == o.answer \in {"error", "eof"}

\* C27: dropping a DecoderSplit tells the decoder the end of stream and then
\* tries at most 100 times to receive a frame, stopping at the first attempt
\* that fails; when telling the end of stream fails there is no attempt; the
\* drop ends and hands no error on.
C27_SplitDropDrainsAtMost100 ==
    dec_call.op = "drop"
        => LET ops == dec_call.ops
               receives == Len(ops) - 1
           IN  /\ ops # <<>> /\ ops[1].op = "send_eof"
               /\ \A i \in 2..Len(ops) : IsReceive(ops[i])
               /\ receives <= 100
               /\ ops[1].answer = "error" => receives = 0
               /\ \A i \in 2..(Len(ops) - 1) : ~IsError(ops[i])
               /\ ops[1].answer = "ok" /\ ~IsError(ops[Len(ops)]) => receives = 100
               /\ dec_call.result = "None"
               /\ dec_call.out = None

\* C27 witness: a DecoderSplit holding more than 100 frames has been
\* dropped, and the drain stopped after 100 frames with no error.
C27_Witness ==
    /\ dec_call.op = "drop"
    /\ Len(dec_call.ops) = 101
    /\ dec_call.ops[101].answer = "frame"
    /\ dec.decoder.fed > dec.decoder.emitted

\* C28: DecoderSplit::decode_raw feeds one packet, its timestamps rescaled
\* from the packet's time base to the decoder's, and then tries once to
\* receive: it returns the frame if there is one, None if the decoder says
\* try again, and the error on any other failure; when feeding fails it
\* returns the error and does not try to receive.
C28_SplitDecodeRawOneSendOneReceive ==
    dec_call.op = "decode_raw"
        => LET ops == dec_call.ops
               packet == dec_call.arg[1]
               from == packet.time_base
               to == dec.decoder_time_base
               InDecoderBase(t, fed) ==
                   IF t = None THEN fed = None
                   ELSE fed # None /\ Nearest(fed[1], t[1] * from[1] * to[2], from[2] * to[1])
           IN  /\ ops # <<>> /\ ops[1].op = "send_packet"
               /\ Cardinality({i \in DOMAIN ops : ops[i].op = "send_packet"}) = 1
               /\ InDecoderBase(packet.pts, ops[1].packet.pts)
               /\ InDecoderBase(packet.dts, ops[1].packet.dts)
               /\ IF ops[1].answer = "error"
                  THEN Len(ops) = 1 /\ dec_call.result = "BackendError"
                  ELSE /\ Len(ops) >= 2 /\ IsReceive(ops[2])
                       /\ Cardinality({i \in DOMAIN ops : IsReceive(ops[i])}) = 1
                       /\ ops[2].answer = "again"
                              => dec_call.result = "Ok" /\ dec_call.out = None
                       /\ ops[2].answer = "frame" /\ ~IsError(ops[Len(ops)])
                              => dec_call.result = "Ok" /\ dec_call.out # None
                       /\ (\E i \in DOMAIN ops : IsError(ops[i]))
                              => dec_call.result = "BackendError" /\ dec_call.out = None

\* C28 witness: a packet stamped 3 in 1/2 has been fed as 5 in the decoder's
\* 1/3 (4.5 rounded to nearest), and the decoder said try again.
C28_Witness ==
    /\ dec_call.op = "decode_raw"
    /\ dec_call.arg[1].pts = Some(3)
    /\ dec_call.arg[1].time_base = <<1, 2>>
    /\ dec.decoder_time_base = <<1, 3>>
    /\ dec_call.ops[1].packet.pts = Some(5)
    /\ Len(dec_call.ops) = 2
    /\ dec_call.ops[2].answer = "again"
    /\ dec_call.result = "Ok"

----------------------------------------------------------------------------
(* The Encoder's frame counter.                                             *)

\* C29: in every state of the Encoder frame_count is the number of packets
\* that encode_raw and flush have written to the writer; each of them has
\* the encoder's output stream index and its position cleared (-1); an
\* encode_raw whose frame yields no packet leaves the counter as it was.
C29_FrameCountIsPacketsWritten ==
    /\ [](/\ enc.frame_count = Len(Packets(enc.writer))
          /\ \A i \in DOMAIN enc.writer :
                IsPacket(enc.writer[i])
                    => /\ enc.writer[i].packet.stream = enc.writer_stream_index
                       /\ enc.writer[i].packet.position = -1)
    /\ [][/\ call'.op = "encode_raw"
          /\ ~Has(call'.ops, "write")
          /\ ~Has(call'.ops, "write_interleaved")
          => enc'.frame_count = enc.frame_count]_vars

\* C29 witness: an Encoder that has written two packets has taken a frame
\* for which the encoder had no packet yet; the counter is still 2.
C29_Witness ==
    /\ call.op = "encode_raw"
    /\ call.result = "Ok"
    /\ Has(call.ops, "receive_packet")
    /\ ~Has(call.ops, "write")
    /\ ~Has(call.ops, "write_interleaved")
    /\ enc.frame_count = 2
    /\ Len(Packets(enc.writer)) = 2

----------------------------------------------------------------------------
(* Routing in the Muxer.                                                    *)

\* C30: for a packet of a source stream s that is in the mapping, a mux that
\* succeeds writes one packet and no more, to the destination stream
\* mapping[s].index, with the position cleared (-1) and the time stamp
\* rescaled from the source time base that with_stream recorded for s to the
\* time base of that destination stream; the write is the interleaved one
\* if and only if the Muxer is configured as interleaved. A mux that fails
\* writes no packet.
C30_MuxRoutesRescalesWritesOnce ==
    [][/\ mux_hist'.muxes = mux_hist.muxes + 1
       /\ mux_call'.arg.stream \in DOMAIN mux.mapping
       => LET packet == mux_call'.arg
              description == mux.mapping[packet.stream]
              from == description.source_time_base
              to == mux.streams[description.index + 1].time_base
              before == Packets(mux.writer)
              after == Packets(mux'.writer)
          IN  IF mux_call'.result = "Ok"
              THEN /\ Len(after) = Len(before) + 1
                   /\ SubSeq(after, 1, Len(before)) = before
                   /\ LET written == after[Len(after)]
                      IN  /\ written.packet.stream = description.index
                          /\ written.packet.position = -1
                          /\ IF packet.pts = None THEN written.packet.pts = None
                             ELSE /\ written.packet.pts # None
                                  /\ Nearest(written.packet.pts[1],
                                             packet.pts[1] * from[1] * to[2],
                                             from[2] * to[1])
                          /\ written.op = "write_interleaved" <=> mux.interleaved
                          /\ written.op = "write" <=> ~mux.interleaved
              ELSE /\ after = before
                   /\ mux_call'.result # "StreamNotFound"]_vars

\* C30 witness: an interleaved Muxer that maps source stream 1 to its first
\* destination stream has muxed a packet of stream 1 stamped 3 in 1/2: it is
\* in the container as a packet of stream 0 stamped 5 in 1/3, position -1,
\* written interleaved.
C30_Witness ==
    /\ mux_call.op = "mux"
    /\ mux_call.result = "Ok"
    /\ mux_call.arg.stream = 1
    /\ mux_call.arg.pts = Some(3)
    /\ mux.interleaved
    /\ mux.mapping[1].index = 0
    /\ mux.mapping[1].source_time_base = <<1, 2>>
    /\ mux.streams[1].time_base = <<1, 3>>
    /\ LET written == mux.writer[Len(mux.writer)]
       IN  /\ written.op = "write_interleaved"
           /\ written.packet = [stream |-> 0, pts |-> Some(5), position |-> -1]

----------------------------------------------------------------------------
(* FitEven, pass by pass.                                                   *)

\* n * min(w_max / w, h_max / h, 1) is below one half, in exact arithmetic,
\* for n one of w, h (both > 0).
RoundsToZero(dims, fit_dims) ==
    \/ 2 * dims[1] * fit_dims[2] < dims[2]
    \/ 2 * dims[2] * fit_dims[1] < dims[1]

\* C31: FitEven terminates for every source and bound. Each pass of its loop
\* returns even dimensions, or stops with None because an output dimension
\* rounded to zero, or takes one pixel from the bound on the axis with the
\* smaller scale factor (from the height on a tie); once a bound dimension
\* is zero the result is None.
C31_FitEvenTerminates ==
    /\ <>(pure.op = "fit_even" => pure.result.done)
    /\ [][pure'.op = "fit_even"
          => LET dims == pure.args[1]
                 w_max == pure.result.fit_dims[1]
                 h_max == pure.result.fit_dims[2]
                 next == pure'.result
             IN  /\ \/ /\ next.done
                       /\ next.result # None
                       /\ next.result[1][1] % 2 = 0
                       /\ next.result[1][2] % 2 = 0
                    \/ /\ next.done
                       /\ next.result = None
                       /\ \/ w_max = 0 \/ h_max = 0
                          \/ HasZero(dims)
                          \/ RoundsToZero(dims, pure.result.fit_dims)
                    \/ /\ ~next.done
                       /\ w_max > 0 /\ h_max > 0
                       /\ next.fit_dims = IF w_max * dims[2] < h_max * dims[1]
                                          THEN <<w_max - 1, h_max>>
                                          ELSE <<w_max, h_max - 1>>
                 /\ w_max = 0 \/ h_max = 0 => next.done /\ next.result = None
                 /\ next.done
                        => next.result = calculate_fit_dims_even(dims, pure.args[2])]_vars

\* C31 witness: FitEven of 1 x 1 into 3 x 3 has taken the three pixels of the
\* height one by one (the scale factors are equal in every pass) and has
\* ended with None at height zero.
C31_Witness ==
    /\ pure.op = "fit_even"
    /\ pure.args = <<(<<1, 1>>), (<<3, 3>>)>>
    /\ pure.result = [fit_dims |-> <<3, 0>>, done |-> TRUE, result |-> None]

----------------------------------------------------------------------------
(* Claims about the PacketizedBufWriter and the Muxer over it.              *)

\* Whether every begin_write in `ops` has an end_write after it.
Closed(ops) ==
    \A i \in DOMAIN ops :
        ops[i] = "begin_write" => \E j \in DOMAIN ops : j > i /\ ops[j] = "end_write"

\* C32 as stated: in every operation of the PacketizedBufWriter (the header
\* write, the write or interleaved write of a packet, the trailer write)
\* begin_write is followed by end_write before the operation returns, on
\* success and on failure alike; after the operation the output context
\* holds no IO context, hence no pointer to the buffer list.
C32_BeginWriteThenEndWrite ==
    /\ Closed(mux_call.ops)
    /\ mux.writer.output.pb = None

\* C36 as stated: what the mux calls and the finish after them returned,
\* concatenated in call order, is all the writer produced, the buffers of
\* the header write included. (Taken where no engine call failed.)
C36_NoWriterOutputLost ==
    /\ mux_call.op = "finish"
    /\ mux_call.result = "Ok"
    /\ mux_faults = 0
    => mux_hist.returned = mux.writer.produced

----------------------------------------------------------------------------
(* More claims about the parameter sets.                                    *)

\* C33 as stated: an AVCC blob that holds an SPS of its declared, positive
\* length and then a PPS count of zero is accepted, with that SPS and no
\* PPS as the result, also when the count is the last byte of the blob.
C33_AvccZeroPpsAccepted ==
    Extracted /\ IsAvcc(pure.args[1])
        => LET bytes == pure.args[1]
               L == SpsLength(bytes)
           IN  L >= 1 /\ Len(bytes) > 8 + L /\ At(bytes, 8 + L) = 0
                   => pure.result = ParameterSets(Slice(bytes, 8, 8 + L), <<>>)

\* C38 as stated: whatever the bytes, extraction returns a pair of parameter
\* sets or InvalidExtraData; it never indexes outside the input or into an
\* empty unit.
C38_PairOrInvalidExtraData ==
    Extracted
        => \/ pure.result = InvalidExtraData
           \/ /\ pure.result # Panicked
              /\ pure.result.kind = "Ok"

----------------------------------------------------------------------------
(* More claims about the Encoder.                                           *)

----------------------------------------------------------------------------
(* More claims about the Muxer.                                             *)

\* C35 as stated: every packet the container holds was written after a
\* header write that succeeded, also when the header write of the first mux
\* call failed and mux was called again.
C35_PacketOnlyAfterHeader ==
    \A i \in DOMAIN mux.writer :
        IsPacket(mux.writer[i])
            => \E j \in 1..(i - 1) : mux.writer[j].op = "header"

\* C37 as stated: the container holds a trailer only after a header; a
\* finish on a Muxer on which mux was never called writes nothing.
C37_TrailerOnlyAfterHeader ==
    /\ \A i \in DOMAIN mux.writer :
          mux.writer[i].op = "trailer"
              => \E j \in 1..(i - 1) : mux.writer[j].op = "header"
    /\ mux_call.op = "finish" /\ mux_hist.muxes = 0 => mux.writer = <<>>

----------------------------------------------------------------------------
(* More claims about the DecoderSplit.                                      *)

\* C39 as stated: every frame decode_raw hands to the scaler has the pixel
\* format and the dimensions the scaler was built for, and there is no
\* scaler only when the decoded frames are RGB24 at the output size; also
\* with a hardware device, when the codec hands out a frame that is not in
\* the device's format and is passed on without download.
C39_ScalerGetsWhatItWasBuiltFor ==
    dec.result = "Ok"
        => /\ \A i \in DOMAIN dec_call.ops :
                 dec_call.ops[i].op = "scaler_run"
                     => dec_call.ops[i].frame = dec.scaler[1].input
           /\ dec.scaler = None
                 => \A frame \in DecodedFrames(dec) :
                        /\ frame.format = FRAME_PIXEL_FORMAT
                        /\ <<frame.width, frame.height>> = dec.size_out
====
